---- MODULE Spec2Model ----
(***************************************************************************)
(* Product catalog service: the Product aggregate (domain package), the    *)
(* change tracker, the mutation plan and committer, and the write          *)
(* orchestrators (usecases) over the products and outbox_events tables.    *)
(*                                                                         *)
(* Two specifications share the variables:                                 *)
(*   SpecAgg  one in-memory aggregate driven by business-method calls;     *)
(*   Spec     write requests (load, business method, plan, commit)         *)
(*            running against the store.                                   *)
(***************************************************************************)
EXTENDS Integers, Sequences, FiniteSets, TLC

VARIABLES
  agg,        \* SpecAgg: the aggregate instance (NoAgg before NewProduct succeeded)
  prev,       \* SpecAgg: the aggregate as it was before the last call
  last,       \* SpecAgg: the last call: method, arguments and returned error
  now,        \* Spec: the clock's current instant
  products,   \* Spec: the products table, product_id -> row
  outbox,     \* Spec: the outbox_events table, in insertion order
  reqs,       \* Spec: the write requests in flight, one per worker
  nextId,     \* Spec: the next identifier uuid.New returns
  lastStep    \* Spec: the last step of a request and the tables before it

aggVars   == <<agg, prev, last>>
storeVars == <<now, products, outbox, reqs, nextId, lastStep>>
vars      == <<agg, prev, last, now, products, outbox, reqs, nextId, lastStep>>

(***************************************************************************)
(* Bounds of the model.                                                    *)
(***************************************************************************)
MaxEvents   == 4

(***************************************************************************)
(* Program constants.                                                      *)
(***************************************************************************)
MaxNameLen     == 255
MaxCategoryLen == 100

\* nil: the error a successful call returns.
ErrNone == "ok"

\* The domain package's error values, dirty-field names and statuses.
domain == [
  ErrProductNotFound            |-> "product not found",
  ErrProductNotActive           |-> "product is not active",
  ErrProductAlreadyActive       |-> "product is already active",
  ErrProductAlreadyInactive     |-> "product is already inactive",
  ErrProductArchived            |-> "product is archived",
  ErrCannotArchiveActiveProduct |-> "cannot archive an active product",
  ErrInvalidDiscountPercentage  |-> "discount percentage must be between 0 and 100",
  ErrInvalidDiscountPeriod      |-> "discount end date must be after start date",
  ErrDiscountNotValid           |-> "discount is not valid at this time",
  ErrDiscountAlreadyExists      |-> "product already has an active discount",
  ErrNegativePrice              |-> "price cannot be negative",
  ErrZeroPrice                  |-> "price cannot be zero",
  ErrEmptyProductName           |-> "product name cannot be empty",
  ErrEmptyProductCategory       |-> "product category cannot be empty",
  ErrProductNameTooLong         |-> "product name exceeds maximum length of 255 characters",
  ErrProductCategoryTooLong     |-> "product category exceeds maximum length of 100 characters",
  FieldName                     |-> "name",
  FieldDescription              |-> "description",
  FieldCategory                 |-> "category",
  FieldBasePrice                |-> "base_price",
  FieldDiscount                 |-> "discount",
  FieldStatus                   |-> "status",
  FieldArchivedAt               |-> "archived_at",
  ProductStatusDraft            |-> "draft",
  ProductStatusActive           |-> "active",
  ProductStatusInactive         |-> "inactive",
  ProductStatusArchived         |-> "archived" ]

(***************************************************************************)
(* nil pointers: a nil *time.Time is an instant no clock returns, the     *)
(* other nils are records no constructor builds.                           *)
(***************************************************************************)
NilTime     == -1
NilDiscount == [nil |-> TRUE]
NilMoney    == [nil |-> TRUE]
NoAgg       == [nil |-> TRUE]
NoCols      == [c \in {} |-> TRUE]

(***************************************************************************)
(* Strings are sequences of characters; " " is the only white space.       *)
(***************************************************************************)
RECURSIVE TrimLeft(_)
TrimLeft(s) == IF s # <<>> /\ Head(s) = " " THEN TrimLeft(Tail(s)) ELSE s

RECURSIVE TrimRight(_)
TrimRight(s) ==
  IF s # <<>> /\ s[Len(s)] = " " THEN TrimRight(SubSeq(s, 1, Len(s) - 1)) ELSE s

TrimSpace(s) == TrimRight(TrimLeft(s))

(***************************************************************************)
(* Money: big.Rat, always in lowest terms with a positive denominator.     *)
(***************************************************************************)
Abs(x) == IF x < 0 THEN -x ELSE x

RECURSIVE GCD(_, _)
GCD(a, b) == IF b = 0 THEN a ELSE GCD(b, a % b)

NewRat(n, d) ==
  LET g == GCD(Abs(n), Abs(d))
      s == IF d < 0 THEN -1 ELSE 1
  IN [num |-> (s * n) \div g, den |-> (s * d) \div g]

RatMul(a, b) == NewRat(a.num * b.num, a.den * b.den)
RatSub(a, b) == NewRat(a.num * b.den - b.num * a.den, a.den * b.den)
RatCmp(a, b) ==
  LET l == a.num * b.den
      r == b.num * a.den
  IN IF l < r THEN -1 ELSE IF l > r THEN 1 ELSE 0

MoneyIsZero(m)     == RatCmp(m, NewRat(0, 1)) = 0
MoneyIsNegative(m) == RatCmp(m, NewRat(0, 1)) < 0
MoneyEquals(m, other) == IF other = NilMoney THEN FALSE ELSE RatCmp(m, other) = 0
MoneySubtract(m, other) == RatSub(m, other)
MoneyMultiply(m, other) == RatMul(m, other)

(***************************************************************************)
(* Validation helpers.                                                     *)
(***************************************************************************)
validateProductName_NoLimit(name) ==
  LET trimmed == TrimSpace(name)
  IN IF trimmed = <<>> THEN domain.ErrEmptyProductName
     ELSE ErrNone

validateProductName(name) ==
  LET trimmed == TrimSpace(name)
  IN IF trimmed = <<>> THEN domain.ErrEmptyProductName
     ELSE IF Len(trimmed) > MaxNameLen THEN domain.ErrProductNameTooLong
     ELSE ErrNone

validateProductCategory(category) ==
  LET trimmed == TrimSpace(category)
  IN IF trimmed = <<>> THEN domain.ErrEmptyProductCategory
     ELSE IF Len(trimmed) > MaxCategoryLen THEN domain.ErrProductCategoryTooLong
     ELSE ErrNone

validatePrice_ZeroAsNegative(price) ==
  IF price = NilMoney THEN domain.ErrZeroPrice
  ELSE IF MoneyIsNegative(price) \/ MoneyIsZero(price) THEN domain.ErrNegativePrice
  ELSE ErrNone

validatePrice(price) ==
  IF price = NilMoney THEN domain.ErrZeroPrice
  ELSE IF MoneyIsNegative(price) THEN domain.ErrNegativePrice
  ELSE IF MoneyIsZero(price) THEN domain.ErrZeroPrice
  ELSE ErrNone

(***************************************************************************)
(* Discount.  The request percentage is a float64 on the 0-100 scale; it   *)
(* is given here in thousandths of a percent, so that the truncation of    *)
(* int64(percentage*100) is visible.                                       *)
(***************************************************************************)
MilliPerPercent   == 1000
CentiPerPercent   == 100
PercentScale      == 10000

NewDiscount_AllowsEmptyPeriod(pctMilli, startDate, endDate) ==
  IF pctMilli < 0 \/ pctMilli > 100 * MilliPerPercent
    THEN [err |-> domain.ErrInvalidDiscountPercentage, d |-> NilDiscount]
  ELSE IF endDate < startDate
    THEN [err |-> domain.ErrInvalidDiscountPeriod, d |-> NilDiscount]
  ELSE [err |-> ErrNone,
        d   |-> [percentage |-> NewRat((pctMilli * CentiPerPercent) \div MilliPerPercent,
                                       PercentScale),
                 startDate  |-> startDate,
                 endDate    |-> endDate]]

NewDiscount(pctMilli, startDate, endDate) ==
  IF pctMilli < 0 \/ pctMilli > 100 * MilliPerPercent
    THEN [err |-> domain.ErrInvalidDiscountPercentage, d |-> NilDiscount]
  ELSE IF endDate < startDate
    THEN [err |-> domain.ErrInvalidDiscountPeriod, d |-> NilDiscount]
  ELSE IF startDate = endDate
    THEN [err |-> domain.ErrInvalidDiscountPeriod, d |-> NilDiscount]
  ELSE [err |-> ErrNone,
        d   |-> [percentage |-> NewRat((pctMilli * CentiPerPercent) \div MilliPerPercent,
                                       PercentScale),
                 startDate  |-> startDate,
                 endDate    |-> endDate]]

NewDiscountFromRat(percentageRat, startDate, endDate) ==
  IF RatCmp(percentageRat, NewRat(0, 1)) < 0 \/ RatCmp(percentageRat, NewRat(1, 1)) > 0
    THEN [err |-> domain.ErrInvalidDiscountPercentage, d |-> NilDiscount]
  ELSE IF endDate < startDate
    THEN [err |-> domain.ErrInvalidDiscountPeriod, d |-> NilDiscount]
  ELSE IF startDate = endDate
    THEN [err |-> domain.ErrInvalidDiscountPeriod, d |-> NilDiscount]
  ELSE [err |-> ErrNone,
        d   |-> [percentage |-> percentageRat, startDate |-> startDate, endDate |-> endDate]]

Percentage(d) == RatMul(d.percentage, NewRat(100, 1))

IsValidAt_StartExclusive(d, t) == d.startDate < t /\ t < d.endDate

IsValidAt_EndInclusive(d, t) == ~(t < d.startDate) /\ ~(d.endDate < t)

IsValidAt(d, t) == ~(t < d.startDate) /\ t < d.endDate

CalculateDiscountAmount(d, price) == MoneyMultiply(price, d.percentage)

ApplyTo_RoundsToCents(d, price) ==
  LET exact == MoneySubtract(price, CalculateDiscountAmount(d, price))
  IN NewRat((exact.num * 100) \div exact.den, 100)

ApplyTo(d, price) == MoneySubtract(price, CalculateDiscountAmount(d, price))

(***************************************************************************)
(* Domain events.                                                          *)
(***************************************************************************)
ProductCreatedEvent(p, t) ==
  [type |-> "product.created", productId |-> p.id, at |-> t,
   name |-> p.name, category |-> p.category, basePrice |-> p.basePrice]

ProductUpdatedEvent(p, t, changes) ==
  [type |-> "product.updated", productId |-> p.id, at |-> t, changes |-> changes]

ProductActivatedEvent(p, t)   == [type |-> "product.activated", productId |-> p.id, at |-> t]
ProductDeactivatedEvent(p, t) == [type |-> "product.deactivated", productId |-> p.id, at |-> t]
ProductArchivedEvent(p, t)    == [type |-> "product.archived", productId |-> p.id, at |-> t]

DiscountAppliedEvent(p, d, t) ==
  [type |-> "product.discount_applied", productId |-> p.id, at |-> t,
   percentage |-> Percentage(d), startDate |-> d.startDate, endDate |-> d.endDate]

DiscountRemovedEvent(p, t) == [type |-> "product.discount_removed", productId |-> p.id, at |-> t]

PriceChangedEvent(p, oldPrice, newPrice, t) ==
  [type |-> "price.changed", productId |-> p.id, at |-> t,
   oldPrice |-> oldPrice, newPrice |-> newPrice]

(***************************************************************************)
(* The Product aggregate.  A business method returns the error and the     *)
(* aggregate as the call leaves it (the receiver is a pointer: what a      *)
(* method assigned before it returned an error stays assigned).            *)
(***************************************************************************)
NewProduct(id, name, description, category, basePrice, t) ==
  IF validateProductName(name) # ErrNone
    THEN [err |-> validateProductName(name), p |-> NoAgg]
  ELSE IF validateProductCategory(category) # ErrNone
    THEN [err |-> validateProductCategory(category), p |-> NoAgg]
  ELSE IF validatePrice(basePrice) # ErrNone
    THEN [err |-> validatePrice(basePrice), p |-> NoAgg]
  ELSE LET p == [id          |-> id,
                 name        |-> TrimSpace(name),
                 description |-> TrimSpace(description),
                 category    |-> TrimSpace(category),
                 basePrice   |-> basePrice,
                 discount    |-> NilDiscount,
                 status      |-> domain.ProductStatusDraft,
                 createdAt   |-> t,
                 updatedAt   |-> t,
                 archivedAt  |-> NilTime,
                 changes     |-> {},
                 events      |-> <<>>]
       IN [err |-> ErrNone, p |-> [p EXCEPT !.events = <<ProductCreatedEvent(p, t)>>]]

ReconstructProduct(id, name, description, category, basePrice, discount, status, createdAt, updatedAt, archivedAt) ==
  [id          |-> id,
   name        |-> name,
   description |-> description,
   category    |-> category,
   basePrice   |-> basePrice,
   discount    |-> discount,
   status      |-> status,
   createdAt   |-> createdAt,
   updatedAt   |-> updatedAt,
   archivedAt  |-> archivedAt,
   changes     |-> {},
   events      |-> <<>>]

MarkDirty_Forgets(p, field) == p

MarkDirty(p, field) == [p EXCEPT !.changes = @ \cup {field}]
Dirty(p, field)     == field \in p.changes
HasChanges(p)       == p.changes # {}

UpdateDetails_ComparesUntrimmed(p, name, description, category, t) ==
  IF p.status = domain.ProductStatusArchived THEN [err |-> domain.ErrProductArchived, p |-> p]
  ELSE IF name # <<>> /\ validateProductName(name) # ErrNone
    THEN [err |-> validateProductName(name), p |-> p]
  ELSE
    LET nameCh == name # <<>> /\ name # p.name
        p1 == IF nameCh
                THEN MarkDirty([p EXCEPT !.name = TrimSpace(name)], domain.FieldName)
                ELSE p
        descCh == description # <<>> /\ description # p1.description
        p2 == IF descCh
                THEN MarkDirty([p1 EXCEPT !.description = TrimSpace(description)],
                               domain.FieldDescription)
                ELSE p1
    IN IF category # <<>> /\ validateProductCategory(category) # ErrNone
         THEN [err |-> validateProductCategory(category), p |-> p2]
       ELSE
         LET catCh == category # <<>> /\ category # p2.category
             p3 == IF catCh
                     THEN MarkDirty([p2 EXCEPT !.category = TrimSpace(category)],
                                    domain.FieldCategory)
                     ELSE p2
             changes == (IF nameCh THEN {<<"name", p3.name>>} ELSE {})
                        \cup (IF descCh THEN {<<"description", p3.description>>} ELSE {})
                        \cup (IF catCh THEN {<<"category", p3.category>>} ELSE {})
         IN IF changes # {}
              THEN [err |-> ErrNone,
                    p   |-> [p3 EXCEPT !.updatedAt = t,
                                       !.events = Append(@, ProductUpdatedEvent(p3, t, changes))]]
              ELSE [err |-> ErrNone, p |-> p3]

UpdateDetails(p, name, description, category, t) ==
  IF p.status = domain.ProductStatusArchived THEN [err |-> domain.ErrProductArchived, p |-> p]
  ELSE IF name # <<>> /\ validateProductName(name) # ErrNone
    THEN [err |-> validateProductName(name), p |-> p]
  ELSE
    LET nameCh == name # <<>> /\ TrimSpace(name) # p.name
        p1 == IF nameCh
                THEN MarkDirty([p EXCEPT !.name = TrimSpace(name)], domain.FieldName)
                ELSE p
        descCh == description # <<>> /\ TrimSpace(description) # p1.description
        p2 == IF descCh
                THEN MarkDirty([p1 EXCEPT !.description = TrimSpace(description)],
                               domain.FieldDescription)
                ELSE p1
    IN IF category # <<>> /\ validateProductCategory(category) # ErrNone
         \* returns with the name and the description already assigned
         THEN [err |-> validateProductCategory(category), p |-> p2]
       ELSE
         LET catCh == category # <<>> /\ TrimSpace(category) # p2.category
             p3 == IF catCh
                     THEN MarkDirty([p2 EXCEPT !.category = TrimSpace(category)],
                                    domain.FieldCategory)
                     ELSE p2
             changes == (IF nameCh THEN {<<"name", p3.name>>} ELSE {})
                        \cup (IF descCh THEN {<<"description", p3.description>>} ELSE {})
                        \cup (IF catCh THEN {<<"category", p3.category>>} ELSE {})
         IN IF changes # {}
              THEN [err |-> ErrNone,
                    p   |-> [p3 EXCEPT !.updatedAt = t,
                                       !.events = Append(@, ProductUpdatedEvent(p3, t, changes))]]
              ELSE [err |-> ErrNone, p |-> p3]

UpdatePrice_StampsNoOp(p, newPrice, t) ==
  IF p.status = domain.ProductStatusArchived THEN [err |-> domain.ErrProductArchived, p |-> p]
  ELSE IF validatePrice(newPrice) # ErrNone THEN [err |-> validatePrice(newPrice), p |-> p]
  ELSE IF ~MoneyEquals(newPrice, p.basePrice)
    THEN [err |-> ErrNone,
          p   |-> [MarkDirty(p, domain.FieldBasePrice) EXCEPT
                     !.basePrice = newPrice,
                     !.updatedAt = t,
                     !.events = Append(@, PriceChangedEvent(p, p.basePrice, newPrice, t))]]
  ELSE [err |-> ErrNone, p |-> [p EXCEPT !.updatedAt = t]]

UpdatePrice_EventAfterSwap(p, newPrice, t) ==
  IF p.status = domain.ProductStatusArchived THEN [err |-> domain.ErrProductArchived, p |-> p]
  ELSE IF validatePrice(newPrice) # ErrNone THEN [err |-> validatePrice(newPrice), p |-> p]
  ELSE IF ~MoneyEquals(newPrice, p.basePrice)
    THEN [err |-> ErrNone,
          p   |-> [MarkDirty(p, domain.FieldBasePrice) EXCEPT
                     !.basePrice = newPrice,
                     !.updatedAt = t,
                     !.events = Append(@, PriceChangedEvent(p, newPrice, newPrice, t))]]
  ELSE [err |-> ErrNone, p |-> p]

UpdatePrice(p, newPrice, t) ==
  IF p.status = domain.ProductStatusArchived THEN [err |-> domain.ErrProductArchived, p |-> p]
  ELSE IF validatePrice(newPrice) # ErrNone THEN [err |-> validatePrice(newPrice), p |-> p]
  ELSE IF ~MoneyEquals(newPrice, p.basePrice)
    THEN [err |-> ErrNone,
          p   |-> [MarkDirty(p, domain.FieldBasePrice) EXCEPT
                     !.basePrice = newPrice,
                     !.updatedAt = t,
                     !.events = Append(@, PriceChangedEvent(p, p.basePrice, newPrice, t))]]
  ELSE [err |-> ErrNone, p |-> p]

Activate_IgnoresArchived(p, t) ==
  IF p.status = domain.ProductStatusActive THEN [err |-> domain.ErrProductAlreadyActive, p |-> p]
  ELSE [err |-> ErrNone,
        p   |-> [MarkDirty(p, domain.FieldStatus) EXCEPT
                   !.status = domain.ProductStatusActive,
                   !.updatedAt = t,
                   !.events = Append(@, ProductActivatedEvent(p, t))]]

Activate_KeepsUpdatedAt(p, t) ==
  IF p.status = domain.ProductStatusArchived THEN [err |-> domain.ErrProductArchived, p |-> p]
  ELSE IF p.status = domain.ProductStatusActive THEN [err |-> domain.ErrProductAlreadyActive, p |-> p]
  ELSE [err |-> ErrNone,
        p   |-> [MarkDirty(p, domain.FieldStatus) EXCEPT
                   !.status = domain.ProductStatusActive,
                   !.events = Append(@, ProductActivatedEvent(p, t))]]

Activate(p, t) ==
  IF p.status = domain.ProductStatusArchived THEN [err |-> domain.ErrProductArchived, p |-> p]
  ELSE IF p.status = domain.ProductStatusActive THEN [err |-> domain.ErrProductAlreadyActive, p |-> p]
  ELSE [err |-> ErrNone,
        p   |-> [MarkDirty(p, domain.FieldStatus) EXCEPT
                   !.status = domain.ProductStatusActive,
                   !.updatedAt = t,
                   !.events = Append(@, ProductActivatedEvent(p, t))]]

Deactivate_DropsDiscount(p, t) ==
  IF p.status = domain.ProductStatusArchived THEN [err |-> domain.ErrProductArchived, p |-> p]
  ELSE IF p.status = domain.ProductStatusInactive THEN [err |-> domain.ErrProductAlreadyInactive, p |-> p]
  ELSE [err |-> ErrNone,
        p   |-> [MarkDirty(p, domain.FieldStatus) EXCEPT
                   !.status = domain.ProductStatusInactive,
                   !.discount = NilDiscount,
                   !.updatedAt = t,
                   !.events = Append(@, ProductDeactivatedEvent(p, t))]]

Deactivate(p, t) ==
  IF p.status = domain.ProductStatusArchived THEN [err |-> domain.ErrProductArchived, p |-> p]
  ELSE IF p.status = domain.ProductStatusInactive THEN [err |-> domain.ErrProductAlreadyInactive, p |-> p]
  ELSE [err |-> ErrNone,
        p   |-> [MarkDirty(p, domain.FieldStatus) EXCEPT
                   !.status = domain.ProductStatusInactive,
                   !.updatedAt = t,
                   !.events = Append(@, ProductDeactivatedEvent(p, t))]]

Archive_AllowsActive(p, t) ==
  IF p.status = domain.ProductStatusArchived THEN [err |-> domain.ErrProductArchived, p |-> p]
  ELSE [err |-> ErrNone,
        p   |-> [MarkDirty(MarkDirty(p, domain.FieldStatus), domain.FieldArchivedAt) EXCEPT
                   !.status = domain.ProductStatusArchived,
                   !.archivedAt = t,
                   !.updatedAt = t,
                   !.events = Append(@, ProductArchivedEvent(p, t))]]

Archive_NoStamp(p, t) ==
  IF p.status = domain.ProductStatusActive THEN [err |-> domain.ErrCannotArchiveActiveProduct, p |-> p]
  ELSE IF p.status = domain.ProductStatusArchived THEN [err |-> domain.ErrProductArchived, p |-> p]
  ELSE [err |-> ErrNone,
        p   |-> [MarkDirty(MarkDirty(p, domain.FieldStatus), domain.FieldArchivedAt) EXCEPT
                   !.status = domain.ProductStatusArchived,
                   !.updatedAt = t,
                   !.events = Append(@, ProductArchivedEvent(p, t))]]

Archive_MarksStatusOnly(p, t) ==
  IF p.status = domain.ProductStatusActive THEN [err |-> domain.ErrCannotArchiveActiveProduct, p |-> p]
  ELSE IF p.status = domain.ProductStatusArchived THEN [err |-> domain.ErrProductArchived, p |-> p]
  ELSE [err |-> ErrNone,
        p   |-> [MarkDirty(p, domain.FieldStatus) EXCEPT
                   !.status = domain.ProductStatusArchived,
                   !.archivedAt = t,
                   !.updatedAt = t,
                   !.events = Append(@, ProductArchivedEvent(p, t))]]

Archive(p, t) ==
  IF p.status = domain.ProductStatusActive THEN [err |-> domain.ErrCannotArchiveActiveProduct, p |-> p]
  ELSE IF p.status = domain.ProductStatusArchived THEN [err |-> domain.ErrProductArchived, p |-> p]
  ELSE [err |-> ErrNone,
        p   |-> [MarkDirty(MarkDirty(p, domain.FieldStatus), domain.FieldArchivedAt) EXCEPT
                   !.status = domain.ProductStatusArchived,
                   !.archivedAt = t,
                   !.updatedAt = t,
                   !.events = Append(@, ProductArchivedEvent(p, t))]]

ApplyDiscount(p, discount, t) ==
  IF p.status # domain.ProductStatusActive THEN [err |-> domain.ErrProductNotActive, p |-> p]
  ELSE IF ~IsValidAt(discount, t) THEN [err |-> domain.ErrDiscountNotValid, p |-> p]
  ELSE IF p.discount # NilDiscount THEN [err |-> domain.ErrDiscountAlreadyExists, p |-> p]
  ELSE [err |-> ErrNone,
        p   |-> [MarkDirty(p, domain.FieldDiscount) EXCEPT
                   !.discount = discount,
                   !.updatedAt = t,
                   !.events = Append(@, DiscountAppliedEvent(p, discount, t))]]

RemoveDiscount_StampsNoOp(p, t) ==
  IF p.status = domain.ProductStatusArchived THEN [err |-> domain.ErrProductArchived, p |-> p]
  ELSE IF p.discount = NilDiscount THEN [err |-> ErrNone, p |-> [p EXCEPT !.updatedAt = t]]
  ELSE [err |-> ErrNone,
        p   |-> [MarkDirty(p, domain.FieldDiscount) EXCEPT
                   !.discount = NilDiscount,
                   !.updatedAt = t,
                   !.events = Append(@, DiscountRemovedEvent(p, t))]]

RemoveDiscount_AlwaysEmits(p, t) ==
  IF p.status = domain.ProductStatusArchived THEN [err |-> domain.ErrProductArchived, p |-> p]
  ELSE [err |-> ErrNone,
        p   |-> [MarkDirty(p, domain.FieldDiscount) EXCEPT
                   !.discount = NilDiscount,
                   !.updatedAt = t,
                   !.events = Append(@, DiscountRemovedEvent(p, t))]]

RemoveDiscount(p, t) ==
  IF p.status = domain.ProductStatusArchived THEN [err |-> domain.ErrProductArchived, p |-> p]
  ELSE IF p.discount = NilDiscount THEN [err |-> ErrNone, p |-> p]
  ELSE [err |-> ErrNone,
        p   |-> [MarkDirty(p, domain.FieldDiscount) EXCEPT
                   !.discount = NilDiscount,
                   !.updatedAt = t,
                   !.events = Append(@, DiscountRemovedEvent(p, t))]]

CalculateEffectivePrice_IgnoresWindow(p, t) ==
  IF p.discount # NilDiscount
    THEN ApplyTo(p.discount, p.basePrice)
    ELSE p.basePrice

CalculateEffectivePrice(p, t) ==
  IF p.discount # NilDiscount /\ IsValidAt(p.discount, t)
    THEN ApplyTo(p.discount, p.basePrice)
    ELSE p.basePrice

\* The domain service computing the same price from a price and a discount.
PricingCalculatorEffectivePrice(basePrice, discount, t) ==
  IF discount = NilDiscount THEN basePrice
  ELSE IF ~IsValidAt(discount, t) THEN basePrice
  ELSE ApplyTo(discount, basePrice)

(***************************************************************************)
(* Inputs.  Instants are integers; the clock only moves forward.           *)
(***************************************************************************)
LongName     == [i \in 1..(MaxNameLen + 1) |-> "a"]
LongCategory == [i \in 1..(MaxCategoryLen + 1) |-> "c"]

Times         == {0, 1}
NewNames      == {<<>>, <<" ">>, <<"a", " ">>, LongName}
NewDescs      == {<<>>}
NewCategories == {<<>>, <<" ">>, <<"c">>, LongCategory}
NewPrices     == {NewRat(0, 1), NewRat(-1, 1), NewRat(2, 2)}
InNames       == {<<>>, <<" ", "b">>, LongName}
InDescs       == {<<>>, <<"d">>}
InCategories  == {<<>>, <<" ">>, <<"e", " ">>}
InPrices      == {NewRat(0, 1), NewRat(-1, 1), NewRat(1, 1), NewRat(3, 2)}
InPercents    == {20 * MilliPerPercent}
InDiscounts   == {NewDiscount(pc, s, s + 1).d : <<pc, s>> \in InPercents \X Times}

NoCall == [op |-> "none", err |-> ErrNone]
NoStep == [op |-> "none", pid |-> 0, outcome |-> "none", err |-> ErrNone, plan |-> <<>>,
           products |-> NoCols, outbox |-> <<>>]

InitStore ==
  /\ now = 0
  /\ products = NoCols
  /\ outbox = <<>>
  /\ reqs = <<>>
  /\ nextId = 1
  /\ lastStep = NoStep

(***************************************************************************)
(* SpecAgg: one aggregate, created by NewProduct and then driven by any    *)
(* sequence of business-method calls, each given the clock's instant.      *)
(***************************************************************************)
InitAgg ==
  /\ agg = NoAgg
  /\ prev = NoAgg
  /\ last = NoCall
  /\ InitStore

Called(op, args, res) ==
  /\ prev' = agg
  /\ agg' = res.p
  /\ last' = [op |-> op, err |-> res.err, args |-> args]
  /\ UNCHANGED storeVars

CanCall == agg # NoAgg /\ Len(agg.events) < MaxEvents

AggTick ==
  /\ now + 1 \in Times
  /\ now' = now + 1
  /\ UNCHANGED <<agg, prev, last, products, outbox, reqs, nextId, lastStep>>

AggNewProduct ==
  /\ agg = NoAgg
  /\ \E name \in NewNames, description \in NewDescs, category \in NewCategories,
        basePrice \in NewPrices :
       Called("NewProduct", [t |-> now],
              NewProduct(1, name, description, category, basePrice, now))

AggUpdateDetails ==
  /\ CanCall
  /\ \E name \in InNames, description \in InDescs, category \in InCategories :
       Called("UpdateDetails",
              [t |-> now, name |-> name, description |-> description, category |-> category],
              UpdateDetails(agg, name, description, category, now))

AggUpdatePrice ==
  /\ CanCall
  /\ \E newPrice \in InPrices :
       Called("UpdatePrice", [t |-> now, newPrice |-> newPrice],
              UpdatePrice(agg, newPrice, now))

AggActivate ==
  /\ CanCall
  /\ Called("Activate", [t |-> now], Activate(agg, now))

AggDeactivate ==
  /\ CanCall
  /\ Called("Deactivate", [t |-> now], Deactivate(agg, now))

AggArchive ==
  /\ CanCall
  /\ Called("Archive", [t |-> now], Archive(agg, now))

AggApplyDiscount ==
  /\ CanCall
  /\ \E discount \in InDiscounts :
       Called("ApplyDiscount", [t |-> now, discount |-> discount],
              ApplyDiscount(agg, discount, now))

AggRemoveDiscount ==
  /\ CanCall
  /\ Called("RemoveDiscount", [t |-> now], RemoveDiscount(agg, now))

NextAgg ==
  \/ AggTick
  \/ AggNewProduct
  \/ AggUpdateDetails
  \/ AggUpdatePrice
  \/ AggActivate
  \/ AggDeactivate
  \/ AggArchive
  \/ AggApplyDiscount
  \/ AggRemoveDiscount

SpecAgg == InitAgg /\ [][NextAgg]_vars

(***************************************************************************)
(* Persistence.  A nullable column or DTO field is a record with a valid   *)
(* flag (spanner.NullString, spanner.NullTime, *string).  Instants count   *)
(* clock ticks; an RFC3339 string carries whole seconds only.              *)
(***************************************************************************)
Null       == [valid |-> FALSE]
NotNull(v) == [valid |-> TRUE, v |-> v]

ZeroTime       == -2
TicksPerSecond == 2
FloatPrec      == 10

FormatRFC3339(t) == [seconds |-> t \div TicksPerSecond]

ParseTimePtr(s) == IF ~s.valid THEN NilTime ELSE s.v.seconds * TicksPerSecond

TimeOrZero(p) == IF p = NilTime THEN ZeroTime ELSE p

RECURSIVE FracDigits(_, _, _)
FracDigits(rem, den, n) ==
  IF n = 0 THEN <<>>
  ELSE <<(rem * 10) \div den>> \o FracDigits((rem * 10) % den, den, n - 1)

RECURSIVE FracRem(_, _, _)
FracRem(rem, den, n) == IF n = 0 THEN rem ELSE FracRem((rem * 10) % den, den, n - 1)

RECURSIVE IncDigits(_)
IncDigits(d) ==
  IF d = <<>> THEN [d |-> <<>>, carry |-> 1]
  ELSE LET rest == SubSeq(d, 1, Len(d) - 1)
       IN IF d[Len(d)] < 9
            THEN [d |-> Append(rest, d[Len(d)] + 1), carry |-> 0]
            ELSE [d |-> Append(IncDigits(rest).d, 0), carry |-> IncDigits(rest).carry]

\* big.Rat.FloatString: the decimal string with prec digits after the point,
\* the last digit rounded to nearest, halves away from zero.
FloatString(x, prec) ==
  LET q      == Abs(x.num) \div x.den
      r      == Abs(x.num) % x.den
      digits == FracDigits(r, x.den, prec)
      r2     == FracRem(r, x.den, prec)
      up     == x.den <= r2 + r2
      inc    == IncDigits(digits)
  IN [neg  |-> x.num < 0,
      int  |-> IF up THEN q + inc.carry ELSE q,
      frac |-> IF up THEN inc.d ELSE digits]

RECURSIVE FracValue(_)
FracValue(d) ==
  IF d = <<>> THEN NewRat(0, 1)
  ELSE LET v == FracValue(Tail(d))
       IN NewRat(Head(d) * v.den + v.num, 10 * v.den)

\* big.Rat.SetString on a decimal string.
SetString(s) ==
  LET f == FracValue(s.frac)
      v == NewRat(s.int * f.den + f.num, f.den)
  IN IF s.neg THEN NewRat(-v.num, v.den) ELSE v

\* Table and column names of the products table.
m_product == [
  TableName               |-> "products",
  ColProductID            |-> "product_id",
  ColName                 |-> "name",
  ColDescription          |-> "description",
  ColCategory             |-> "category",
  ColBasePriceNumerator   |-> "base_price_numerator",
  ColBasePriceDenominator |-> "base_price_denominator",
  ColDiscountPercent      |-> "discount_percent",
  ColDiscountStartDate    |-> "discount_start_date",
  ColDiscountEndDate      |-> "discount_end_date",
  ColStatus               |-> "status",
  ColCreatedAt            |-> "created_at",
  ColUpdatedAt            |-> "updated_at",
  ColArchivedAt           |-> "archived_at" ]

\* Table and column names of the outbox_events table.
m_outbox == [
  TableName      |-> "outbox_events",
  ColEventID     |-> "event_id",
  ColEventType   |-> "event_type",
  ColAggregateID |-> "aggregate_id",
  ColPayload     |-> "payload",
  ColStatus      |-> "status",
  ColCreatedAt   |-> "created_at",
  ColProcessedAt |-> "processed_at" ]

NilMutation == [nil |-> TRUE]

Money_Numerator(m)   == m.num
Money_Denominator(m) == m.den

\* m_product.BuildInsertMap over the values buildInsertValues extracts.
buildInsertValues_SkipsUnset(p) ==
  (m_product.ColProductID            :> p.id)
  @@ (m_product.ColName              :> p.name)
  @@ (m_product.ColDescription       :> IF p.description # <<>> THEN NotNull(p.description) ELSE Null)
  @@ (m_product.ColCategory          :> p.category)
  @@ (m_product.ColBasePriceNumerator   :> Money_Numerator(p.basePrice))
  @@ (m_product.ColBasePriceDenominator :> Money_Denominator(p.basePrice))
  @@ (IF p.discount # NilDiscount
        THEN (m_product.ColDiscountPercent :> NotNull(FloatString(p.discount.percentage, FloatPrec)))
             @@ (m_product.ColDiscountStartDate :> NotNull(p.discount.startDate))
             @@ (m_product.ColDiscountEndDate :> NotNull(p.discount.endDate))
        ELSE NoCols)
  @@ (m_product.ColStatus            :> p.status)
  @@ (m_product.ColCreatedAt         :> p.createdAt)
  @@ (m_product.ColUpdatedAt         :> p.updatedAt)
  @@ (m_product.ColArchivedAt        :> Null)

buildInsertValues(p) ==
  (m_product.ColProductID            :> p.id)
  @@ (m_product.ColName              :> p.name)
  @@ (m_product.ColDescription       :> IF p.description # <<>> THEN NotNull(p.description) ELSE Null)
  @@ (m_product.ColCategory          :> p.category)
  @@ (m_product.ColBasePriceNumerator   :> Money_Numerator(p.basePrice))
  @@ (m_product.ColBasePriceDenominator :> Money_Denominator(p.basePrice))
  @@ (m_product.ColDiscountPercent   :> IF p.discount # NilDiscount
                                THEN NotNull(FloatString(p.discount.percentage, FloatPrec))
                                ELSE Null)
  @@ (m_product.ColDiscountStartDate :> IF p.discount # NilDiscount /\ p.discount.startDate # ZeroTime
                                THEN NotNull(p.discount.startDate) ELSE Null)
  @@ (m_product.ColDiscountEndDate   :> IF p.discount # NilDiscount /\ p.discount.endDate # ZeroTime
                                THEN NotNull(p.discount.endDate) ELSE Null)
  @@ (m_product.ColStatus            :> p.status)
  @@ (m_product.ColCreatedAt         :> p.createdAt)
  @@ (m_product.ColUpdatedAt         :> p.updatedAt)
  @@ (m_product.ColArchivedAt        :> Null)

InsertMut(p) == [kind |-> "insert", table |-> m_product.TableName, values |-> buildInsertValues(p)]

\* The columns UpdateMut writes: those of the dirty fields only.
DirtyUpdates_WholeDetails(p) ==
  (m_product.ColName :> p.name)
  @@ (m_product.ColDescription :> IF p.description = <<>> THEN Null ELSE NotNull(p.description))
  @@ (m_product.ColCategory :> p.category)
  @@ (IF Dirty(p, domain.FieldBasePrice)
        THEN (m_product.ColBasePriceNumerator :> Money_Numerator(p.basePrice))
             @@ (m_product.ColBasePriceDenominator :> Money_Denominator(p.basePrice))
        ELSE NoCols)
  @@ (IF Dirty(p, domain.FieldDiscount)
        THEN IF p.discount # NilDiscount
               THEN (m_product.ColDiscountPercent :> NotNull(FloatString(p.discount.percentage, FloatPrec)))
                    @@ (m_product.ColDiscountStartDate :> NotNull(p.discount.startDate))
                    @@ (m_product.ColDiscountEndDate :> NotNull(p.discount.endDate))
               ELSE (m_product.ColDiscountPercent :> Null)
                    @@ (m_product.ColDiscountStartDate :> Null)
                    @@ (m_product.ColDiscountEndDate :> Null)
        ELSE NoCols)
  @@ (IF Dirty(p, domain.FieldStatus) THEN (m_product.ColStatus :> p.status) ELSE NoCols)
  @@ (IF Dirty(p, domain.FieldArchivedAt)
        THEN (m_product.ColArchivedAt :> IF p.archivedAt # NilTime THEN NotNull(p.archivedAt) ELSE Null)
        ELSE NoCols)

DirtyUpdates_WritesDiscount(p) ==
  (IF Dirty(p, domain.FieldName) THEN (m_product.ColName :> p.name) ELSE NoCols)
  @@ (IF Dirty(p, domain.FieldDescription)
        THEN (m_product.ColDescription :> IF p.description = <<>> THEN Null ELSE NotNull(p.description))
        ELSE NoCols)
  @@ (IF Dirty(p, domain.FieldCategory) THEN (m_product.ColCategory :> p.category) ELSE NoCols)
  @@ (IF Dirty(p, domain.FieldBasePrice)
        THEN (m_product.ColBasePriceNumerator :> Money_Numerator(p.basePrice))
             @@ (m_product.ColBasePriceDenominator :> Money_Denominator(p.basePrice))
        ELSE NoCols)
  @@ (IF p.discount # NilDiscount
        THEN (m_product.ColDiscountPercent :> NotNull(FloatString(p.discount.percentage, FloatPrec)))
             @@ (m_product.ColDiscountStartDate :> NotNull(p.discount.startDate))
             @@ (m_product.ColDiscountEndDate :> NotNull(p.discount.endDate))
        ELSE (m_product.ColDiscountPercent :> Null)
             @@ (m_product.ColDiscountStartDate :> Null)
             @@ (m_product.ColDiscountEndDate :> Null))
  @@ (IF Dirty(p, domain.FieldStatus) THEN (m_product.ColStatus :> p.status) ELSE NoCols)
  @@ (IF Dirty(p, domain.FieldArchivedAt)
        THEN (m_product.ColArchivedAt :> IF p.archivedAt # NilTime THEN NotNull(p.archivedAt) ELSE Null)
        ELSE NoCols)

DirtyUpdates(p) ==
  (IF Dirty(p, domain.FieldName) THEN (m_product.ColName :> p.name) ELSE NoCols)
  @@ (IF Dirty(p, domain.FieldDescription)
        THEN (m_product.ColDescription :> IF p.description = <<>> THEN Null ELSE NotNull(p.description))
        ELSE NoCols)
  @@ (IF Dirty(p, domain.FieldCategory) THEN (m_product.ColCategory :> p.category) ELSE NoCols)
  @@ (IF Dirty(p, domain.FieldBasePrice)
        THEN (m_product.ColBasePriceNumerator :> Money_Numerator(p.basePrice))
             @@ (m_product.ColBasePriceDenominator :> Money_Denominator(p.basePrice))
        ELSE NoCols)
  @@ (IF Dirty(p, domain.FieldDiscount)
        THEN IF p.discount # NilDiscount
               THEN (m_product.ColDiscountPercent :> NotNull(FloatString(p.discount.percentage, FloatPrec)))
                    @@ (m_product.ColDiscountStartDate :> NotNull(p.discount.startDate))
                    @@ (m_product.ColDiscountEndDate :> NotNull(p.discount.endDate))
               ELSE (m_product.ColDiscountPercent :> Null)
                    @@ (m_product.ColDiscountStartDate :> Null)
                    @@ (m_product.ColDiscountEndDate :> Null)
        ELSE NoCols)
  @@ (IF Dirty(p, domain.FieldStatus) THEN (m_product.ColStatus :> p.status) ELSE NoCols)
  @@ (IF Dirty(p, domain.FieldArchivedAt)
        THEN (m_product.ColArchivedAt :> IF p.archivedAt # NilTime THEN NotNull(p.archivedAt) ELSE Null)
        ELSE NoCols)

UpdateMut_WritesUnchanged(p) ==
  [kind   |-> "update",
   table  |-> m_product.TableName,
   values |-> (m_product.ColProductID :> p.id) @@ DirtyUpdates(p) @@ (m_product.ColUpdatedAt :> p.updatedAt)]

UpdateMut(p) ==
  IF ~HasChanges(p) THEN NilMutation
  ELSE IF DOMAIN DirtyUpdates(p) = {} THEN NilMutation
  ELSE [kind   |-> "update",
        table  |-> m_product.TableName,
        values |-> (m_product.ColProductID :> p.id) @@ DirtyUpdates(p) @@ (m_product.ColUpdatedAt :> p.updatedAt)]

ArchiveMut(p) == UpdateMut(p)

\* shared.MarshalDomainEventPayload: the fields of the event the payload carries.
MarshalDomainEventPayload(ev) ==
  IF ev.type = "product.created"
    THEN [product_id |-> ev.productId, name |-> ev.name, category |-> ev.category,
          base_price |-> [numerator   |-> Money_Numerator(ev.basePrice),
                          denominator |-> Money_Denominator(ev.basePrice)],
          created_at |-> ev.at]
  ELSE IF ev.type = "product.updated"
    THEN [product_id |-> ev.productId, changes |-> ev.changes, updated_at |-> ev.at,
          occurred_at |-> ev.at]
  ELSE IF ev.type = "product.activated"
    THEN [product_id |-> ev.productId, activated_at |-> ev.at, occurred_at |-> ev.at,
          event_type |-> ev.type, aggregate_id |-> ev.productId]
  ELSE IF ev.type = "product.deactivated"
    THEN [product_id |-> ev.productId, deactivated_at |-> ev.at, occurred_at |-> ev.at]
  ELSE IF ev.type = "product.archived"
    THEN [product_id |-> ev.productId, archived_at |-> ev.at, occurred_at |-> ev.at]
  ELSE IF ev.type = "product.discount_applied"
    THEN [product_id |-> ev.productId, discount_percent |-> ev.percentage,
          discount_start_date |-> ev.startDate, discount_end_date |-> ev.endDate,
          applied_at |-> ev.at, occurred_at |-> ev.at]
  ELSE IF ev.type = "product.discount_removed"
    THEN [product_id |-> ev.productId, removed_at |-> ev.at, occurred_at |-> ev.at]
  ELSE [product_id |-> ev.productId,
        old_price |-> [numerator   |-> Money_Numerator(ev.oldPrice),
                       denominator |-> Money_Denominator(ev.oldPrice)],
        new_price |-> [numerator   |-> Money_Numerator(ev.newPrice),
                       denominator |-> Money_Denominator(ev.newPrice)],
        changed_at |-> ev.at, occurred_at |-> ev.at]

OutboxStatusPending == "pending"

OutboxInsertMut_Processed(e) ==
  [kind   |-> "insert",
   table  |-> m_outbox.TableName,
   values |-> (m_outbox.ColEventID        :> e.EventID)
              @@ (m_outbox.ColEventType   :> e.EventType)
              @@ (m_outbox.ColAggregateID :> e.AggregateID)
              @@ (m_outbox.ColPayload     :> e.PayloadJSON)
              @@ (m_outbox.ColStatus      :> e.Status)
              @@ (m_outbox.ColCreatedAt   :> e.CreatedAtUTC)
              @@ (m_outbox.ColProcessedAt :> NotNull(e.CreatedAtUTC))]

OutboxInsertMut(e) ==
  [kind   |-> "insert",
   table  |-> m_outbox.TableName,
   values |-> (m_outbox.ColEventID        :> e.EventID)
              @@ (m_outbox.ColEventType   :> e.EventType)
              @@ (m_outbox.ColAggregateID :> e.AggregateID)
              @@ (m_outbox.ColPayload     :> e.PayloadJSON)
              @@ (m_outbox.ColStatus      :> e.Status)
              @@ (m_outbox.ColCreatedAt   :> e.CreatedAtUTC)
              @@ (m_outbox.ColProcessedAt :> Null)]

(***************************************************************************)
(* The mutation plan and the committer.                                    *)
(***************************************************************************)
NewPlan == <<>>

PlanAdd_Prepends(plan, m) == IF m = NilMutation THEN plan ELSE <<m>> \o plan

PlanAdd(plan, m) == IF m = NilMutation THEN plan ELSE Append(plan, m)

PlanIsEmpty(plan) == Len(plan) = 0

RECURSIVE AddOutboxEvents_Twice(_, _, _, _)
AddOutboxEvents_Twice(plan, events, t, id) ==
  IF events = <<>> THEN plan
  ELSE LET row(eventID) == OutboxInsertMut([EventID      |-> eventID,
                                            EventType    |-> Head(events).type,
                                            AggregateID  |-> Head(events).productId,
                                            PayloadJSON  |-> MarshalDomainEventPayload(Head(events)),
                                            Status       |-> OutboxStatusPending,
                                            CreatedAtUTC |-> t])
       IN AddOutboxEvents_Twice(PlanAdd(PlanAdd(plan, row(id)), row(id + 1)),
                                Tail(events), t, id + 2)

\* The orchestrators' loop over product.DomainEvents(): one outbox insert per
\* event, each with a fresh uuid, stamped with the command's now.
RECURSIVE AddOutboxEvents(_, _, _, _)
AddOutboxEvents(plan, events, t, id) ==
  IF events = <<>> THEN plan
  ELSE AddOutboxEvents(
         PlanAdd(plan, OutboxInsertMut([EventID      |-> id,
                                        EventType    |-> Head(events).type,
                                        AggregateID  |-> Head(events).productId,
                                        PayloadJSON  |-> MarshalDomainEventPayload(Head(events)),
                                        Status       |-> OutboxStatusPending,
                                        CreatedAtUTC |-> t])),
         Tail(events), t, id + 1)

OutboxKeys(rows) == {rows[i][m_outbox.ColEventID] : i \in DOMAIN rows}

ApplyMutation_KeepsStored(db, m) ==
  IF ~db.ok THEN db
  ELSE IF m.table = m_product.TableName /\ m.kind = "insert"
    THEN IF m.values[m_product.ColProductID] \in DOMAIN db.products
           THEN [db EXCEPT !.ok = FALSE]
           ELSE [db EXCEPT !.products = (m.values[m_product.ColProductID] :> m.values) @@ db.products]
  ELSE IF m.table = m_product.TableName
    THEN IF m.values[m_product.ColProductID] \notin DOMAIN db.products
           THEN [db EXCEPT !.ok = FALSE]
           ELSE [db EXCEPT !.products[m.values[m_product.ColProductID]] = @ @@ m.values]
  ELSE IF m.values[m_outbox.ColEventID] \in OutboxKeys(db.outbox)
    THEN [db EXCEPT !.ok = FALSE]
  ELSE [db EXCEPT !.outbox = Append(@, m.values)]

\* What the store does with one buffered mutation: an insert of an existing
\* key or an update of a missing row fails the transaction.
ApplyMutation(db, m) ==
  IF ~db.ok THEN db
  ELSE IF m.table = m_product.TableName /\ m.kind = "insert"
    THEN IF m.values[m_product.ColProductID] \in DOMAIN db.products
           THEN [db EXCEPT !.ok = FALSE]
           ELSE [db EXCEPT !.products = (m.values[m_product.ColProductID] :> m.values) @@ db.products]
  ELSE IF m.table = m_product.TableName
    THEN IF m.values[m_product.ColProductID] \notin DOMAIN db.products
           THEN [db EXCEPT !.ok = FALSE]
           ELSE [db EXCEPT !.products[m.values[m_product.ColProductID]] = m.values @@ @]
  ELSE IF m.values[m_outbox.ColEventID] \in OutboxKeys(db.outbox)
    THEN [db EXCEPT !.ok = FALSE]
  ELSE [db EXCEPT !.outbox = Append(@, m.values)]

BufferWrite_FirstOnly(db, mutations) ==
  IF mutations = <<>> THEN db ELSE ApplyMutation(db, Head(mutations))

RECURSIVE BufferWrite(_, _)
BufferWrite(db, mutations) ==
  IF mutations = <<>> THEN db
  ELSE BufferWrite(ApplyMutation(db, Head(mutations)), Tail(mutations))

(***************************************************************************)
(* The read model the orchestrators load through.                          *)
(***************************************************************************)
ErrRowNotFound == "spanner: row not found"
ErrStore       == "spanner: transaction failed"
ErrRead        == "spanner: read failed"
PanicZeroDenominator == "panic: money: denominator cannot be zero"

RatQuo(a, b) == NewRat(a.num * b.den, a.den * b.num)

computeEffectivePrice(baseNum, baseDen, discountPercent, start, end, t) ==
  LET base    == NewRat(baseNum, baseDen)
      parsed  == SetString(discountPercent.v)
      discRat == IF RatCmp(parsed, NewRat(1, 1)) = 1
                   THEN RatQuo(parsed, NewRat(100, 1)) ELSE parsed
  IN IF ~discountPercent.valid THEN base
     ELSE IF start.valid /\ t < start.v THEN base
     ELSE IF end.valid /\ end.v < t THEN base
     ELSE RatSub(base, RatMul(base, discRat))

FormatNullTime(nt) == IF nt.valid THEN NotNull(FormatRFC3339(nt.v)) ELSE Null

GetProduct(rows, productID, t) ==
  IF productID \notin DOMAIN rows THEN [err |-> ErrRowNotFound, dto |-> Null]
  ELSE LET row == rows[productID]
       IN [err |-> ErrNone,
           dto |-> [ProductID      |-> row[m_product.ColProductID],
                    Name           |-> row[m_product.ColName],
                    Description    |-> row[m_product.ColDescription],
                    Category       |-> row[m_product.ColCategory],
                    BasePriceNum   |-> row[m_product.ColBasePriceNumerator],
                    BasePriceDen   |-> row[m_product.ColBasePriceDenominator],
                    DiscountPct    |-> row[m_product.ColDiscountPercent],
                    DiscountStart  |-> FormatNullTime(row[m_product.ColDiscountStartDate]),
                    DiscountEnd    |-> FormatNullTime(row[m_product.ColDiscountEndDate]),
                    Status         |-> row[m_product.ColStatus],
                    CreatedAt      |-> NotNull(FormatRFC3339(row[m_product.ColCreatedAt])),
                    UpdatedAt      |-> NotNull(FormatRFC3339(row[m_product.ColUpdatedAt])),
                    ArchivedAt     |-> FormatNullTime(row[m_product.ColArchivedAt]),
                    EffectivePrice |->
                      FloatString(computeEffectivePrice(row[m_product.ColBasePriceNumerator],
                                                        row[m_product.ColBasePriceDenominator],
                                                        row[m_product.ColDiscountPercent],
                                                        row[m_product.ColDiscountStartDate],
                                                        row[m_product.ColDiscountEndDate], t),
                                  FloatPrec)]]

NewMoney(numerator, denominator) ==
  IF denominator = 0 THEN [panic |-> TRUE, m |-> NilMoney]
  ELSE [panic |-> FALSE, m |-> NewRat(numerator, denominator)]

DescriptionOf(dto) == IF dto.Description.valid THEN dto.Description.v ELSE <<>>

\* apply_discount and remove_discount rebuild the stored discount from the
\* DTO's strings; NewDiscountFromRat may reject what they parsed.
ExistingDiscount(dto) ==
  IF dto.DiscountPct.valid /\ dto.DiscountStart.valid /\ dto.DiscountEnd.valid
    THEN LET parsed == SetString(dto.DiscountPct.v)
             pct    == IF RatCmp(parsed, NewRat(1, 1)) = 1
                         THEN RatQuo(parsed, NewRat(100, 1)) ELSE parsed
             start  == ParseTimePtr(dto.DiscountStart)
             end    == ParseTimePtr(dto.DiscountEnd)
         IN IF start # NilTime /\ end # NilTime
              THEN NewDiscountFromRat(pct, start, end)
              ELSE [err |-> ErrNone, d |-> NilDiscount]
    ELSE [err |-> ErrNone, d |-> NilDiscount]

\* The aggregate an orchestrator rebuilds from the DTO, with the description
\* and the discount that orchestrator passes.
Reconstruct(dto, description, discount) ==
  ReconstructProduct(dto.ProductID, dto.Name, description, dto.Category,
                     NewMoney(dto.BasePriceNum, dto.BasePriceDen).m, discount, dto.Status,
                     TimeOrZero(ParseTimePtr(dto.CreatedAt)),
                     TimeOrZero(ParseTimePtr(dto.UpdatedAt)),
                     ParseTimePtr(dto.ArchivedAt))

\* The tail every update orchestrator shares: UpdateMut, then one outbox
\* insert per pending event.
UpdatePlan_NoOutbox(p, t, id) == PlanAdd(NewPlan, UpdateMut(p))

UpdatePlan(p, t, id) == AddOutboxEvents(PlanAdd(NewPlan, UpdateMut(p)), p.events, t, id)

Outcome(err, plan) == [err |-> err, plan |-> plan]

CreateProductExecute(req, t, id) ==
  LET baseMoney == NewMoney(req.BasePriceNum, req.BasePriceDen)
      res       == NewProduct(id, req.Name, req.Description, req.Category, baseMoney.m, t)
  IN IF baseMoney.panic THEN Outcome(PanicZeroDenominator, NewPlan)
     ELSE IF res.err # ErrNone THEN Outcome(res.err, NewPlan)
     ELSE Outcome(ErrNone,
                  AddOutboxEvents(PlanAdd(NewPlan, InsertMut(res.p)), res.p.events, t, id + 1))

OrEmpty(ptr) == IF ptr.valid THEN ptr.v ELSE <<>>

UpdateProductExecute(req, dto, t, id) ==
  LET product == Reconstruct(dto, DescriptionOf(dto), NilDiscount)
      res     == UpdateDetails(product, OrEmpty(req.Name), OrEmpty(req.Description),
                               OrEmpty(req.Category), t)
  IN IF res.err # ErrNone THEN Outcome(res.err, NewPlan)
     ELSE Outcome(ErrNone, UpdatePlan(res.p, t, id))

ActivateProductExecute_IgnoresError(dto, t, id) ==
  LET res == Activate(Reconstruct(dto, <<>>, NilDiscount), t)
  IN Outcome(ErrNone, UpdatePlan(res.p, t, id))

ActivateProductExecute(dto, t, id) ==
  LET res == Activate(Reconstruct(dto, <<>>, NilDiscount), t)
  IN IF res.err # ErrNone THEN Outcome(res.err, NewPlan)
     ELSE Outcome(ErrNone, UpdatePlan(res.p, t, id))

DeactivateProductExecute(dto, t, id) ==
  LET res == Deactivate(Reconstruct(dto, <<>>, NilDiscount), t)
  IN IF res.err # ErrNone THEN Outcome(res.err, NewPlan)
     ELSE Outcome(ErrNone, UpdatePlan(res.p, t, id))

ApplyDiscountExecute_DropsExisting(req, dto, t, id) ==
  LET product  == Reconstruct(dto, DescriptionOf(dto), NilDiscount)
      discount == NewDiscount(req.Percentage, req.StartDate, req.EndDate)
      res      == ApplyDiscount(product, discount.d, t)
  IN IF discount.err # ErrNone THEN Outcome(discount.err, NewPlan)
     ELSE IF res.err # ErrNone THEN Outcome(res.err, NewPlan)
     ELSE Outcome(ErrNone, UpdatePlan(res.p, t, id))

ApplyDiscountExecute(req, dto, t, id) ==
  LET existing == ExistingDiscount(dto)
      product  == Reconstruct(dto, DescriptionOf(dto), existing.d)
      discount == NewDiscount(req.Percentage, req.StartDate, req.EndDate)
      res      == ApplyDiscount(product, discount.d, t)
  IN IF existing.err # ErrNone THEN Outcome(existing.err, NewPlan)
     ELSE IF discount.err # ErrNone THEN Outcome(discount.err, NewPlan)
     ELSE IF res.err # ErrNone THEN Outcome(res.err, NewPlan)
     ELSE Outcome(ErrNone, UpdatePlan(res.p, t, id))

RemoveDiscountExecute(dto, t, id) ==
  LET existing == ExistingDiscount(dto)
      res      == RemoveDiscount(Reconstruct(dto, DescriptionOf(dto), existing.d), t)
  IN IF existing.err # ErrNone THEN Outcome(existing.err, NewPlan)
     ELSE IF res.err # ErrNone THEN Outcome(res.err, NewPlan)
     ELSE Outcome(ErrNone, UpdatePlan(res.p, t, id))

(***************************************************************************)
(* Spec: write requests against the store, one after the other.  A         *)
(* request is one Execute of an orchestrator; it touches the store twice,  *)
(* when it loads the product and when the committer applies its plan, and  *)
(* the clock may advance in between.  lastStep remembers the last such     *)
(* step and the tables as they were before it.                             *)
(***************************************************************************)
MaxIds == 4

Workers    == {1}
StoreTimes == {0, TicksPerSecond}
MissingId  == 0

Idle == [op |-> "idle"]

CreateReqs ==
  { [Name |-> <<"a">>, Description |-> <<"d">>, Category |-> <<"c">>,
     BasePriceNum |-> 3, BasePriceDen |-> 2],
    [Name |-> <<" ">>, Description |-> <<>>, Category |-> <<"c">>,
     BasePriceNum |-> 3, BasePriceDen |-> 2],
    [Name |-> <<"a">>, Description |-> <<>>, Category |-> <<>>,
     BasePriceNum |-> 3, BasePriceDen |-> 2],
    [Name |-> <<"a">>, Description |-> <<>>, Category |-> <<"c">>,
     BasePriceNum |-> 0, BasePriceDen |-> 1],
    [Name |-> <<"a">>, Description |-> <<>>, Category |-> <<"c">>,
     BasePriceNum |-> -1, BasePriceDen |-> 2],
    [Name |-> <<"a">>, Description |-> <<>>, Category |-> <<"c">>,
     BasePriceNum |-> 1, BasePriceDen |-> 0] }

UpdateReqs ==
  { [Name |-> NotNull(<<"b">>), Description |-> Null, Category |-> Null],
    [Name |-> NotNull(<<"b">>), Description |-> Null, Category |-> NotNull(<<" ">>)],
    [Name |-> NotNull(<<"b">>), Description |-> Null, Category |-> NotNull(<<"e">>)],
    [Name |-> Null, Description |-> NotNull(<<"d">>), Category |-> Null] }

DiscountReqs ==
  { [Percentage |-> 20 * MilliPerPercent, StartDate |-> 0, EndDate |-> 1],
    [Percentage |-> 20 * MilliPerPercent, StartDate |-> 0, EndDate |-> 2],
    [Percentage |-> 20 * MilliPerPercent, StartDate |-> 2, EndDate |-> 4],
    [Percentage |-> 101 * MilliPerPercent, StartDate |-> 0, EndDate |-> 2] }

ProductIds == DOMAIN products \cup {MissingId}

Init ==
  /\ agg = NoAgg
  /\ prev = NoAgg
  /\ last = NoCall
  /\ now = 0
  /\ products = NoCols
  /\ outbox = <<>>
  /\ reqs = [w \in Workers |-> Idle]
  /\ nextId = 1
  /\ lastStep = NoStep

Step(op, pid, outcome, err, plan) ==
  [op |-> op, pid |-> pid, outcome |-> outcome, err |-> err, plan |-> plan,
   products |-> products, outbox |-> outbox]

\* The orchestrator returns before the committer is reached, or the plan is
\* empty and Apply returns nil without a transaction: nothing is in flight.
Returned(op, pid, err) ==
  /\ lastStep' = Step(op, pid, IF err = ErrNone THEN "empty" ELSE "failed", err, NewPlan)
  /\ UNCHANGED <<agg, prev, last, now, products, outbox, reqs, nextId>>

\* The plan is built: every uuid it holds is drawn, the transaction is next.
Planned(w, op, pid, plan, ids) ==
  /\ nextId + ids <= MaxIds + 1
  /\ reqs' = [reqs EXCEPT ![w] = [op |-> op, pid |-> pid, now |-> now, plan |-> plan]]
  /\ nextId' = nextId + ids
  /\ lastStep' = Step(op, pid, "planned", ErrNone, plan)
  /\ UNCHANGED <<agg, prev, last, now, products, outbox>>

Finish(w, op, pid, out, ids) ==
  IF out.err # ErrNone \/ PlanIsEmpty(out.plan)
    THEN Returned(op, pid, out.err)
    ELSE Planned(w, op, pid, out.plan, ids)

LoadingOps == {"update_product", "activate_product", "deactivate_product", "apply_discount",
               "remove_discount"}

\* The read itself fails (the query's iterator or the row decoding returns an
\* error): GetProduct returns it and the orchestrator returns it.
BeginReadFails(w) ==
  /\ reqs[w] = Idle
  /\ \E op \in LoadingOps, pid \in DOMAIN products : Returned(op, pid, ErrRead)

BeginCreateProduct(w) ==
  /\ reqs[w] = Idle
  /\ \E req \in CreateReqs :
       Finish(w, "create_product", nextId, CreateProductExecute(req, now, nextId), 2)

BeginUpdateProduct(w) ==
  /\ reqs[w] = Idle
  /\ \E pid \in ProductIds, req \in UpdateReqs :
       LET got == GetProduct(products, pid, now)
       IN IF got.err # ErrNone
            THEN Returned("update_product", pid, got.err)
            ELSE Finish(w, "update_product", pid, UpdateProductExecute(req, got.dto, now, nextId), 1)

BeginActivateProduct(w) ==
  /\ reqs[w] = Idle
  /\ \E pid \in ProductIds :
       LET got == GetProduct(products, pid, now)
       IN IF got.err # ErrNone
            THEN Returned("activate_product", pid, got.err)
            ELSE Finish(w, "activate_product", pid, ActivateProductExecute(got.dto, now, nextId), 1)

BeginDeactivateProduct(w) ==
  /\ reqs[w] = Idle
  /\ \E pid \in ProductIds :
       LET got == GetProduct(products, pid, now)
       IN IF got.err # ErrNone
            THEN Returned("deactivate_product", pid, got.err)
            ELSE Finish(w, "deactivate_product", pid, DeactivateProductExecute(got.dto, now, nextId), 1)

BeginApplyDiscount(w) ==
  /\ reqs[w] = Idle
  /\ \E pid \in ProductIds, req \in DiscountReqs :
       LET got == GetProduct(products, pid, now)
       IN IF got.err # ErrNone
            THEN Returned("apply_discount", pid, got.err)
            ELSE Finish(w, "apply_discount", pid, ApplyDiscountExecute(req, got.dto, now, nextId), 1)

BeginRemoveDiscount(w) ==
  /\ reqs[w] = Idle
  /\ \E pid \in ProductIds :
       LET got == GetProduct(products, pid, now)
       IN IF got.err # ErrNone
            THEN Returned("remove_discount", pid, got.err)
            ELSE Finish(w, "remove_discount", pid, RemoveDiscountExecute(got.dto, now, nextId), 1)

\* Committer.Apply on a non-empty plan: one read-write transaction that
\* buffers every mutation of the plan; the commit applies all of them.
Commit(w) ==
  /\ reqs[w] # Idle
  /\ LET db == BufferWrite([products |-> products, outbox |-> outbox, ok |-> TRUE],
                           reqs[w].plan)
     IN /\ db.ok
        /\ products' = db.products
        /\ outbox' = db.outbox
        /\ lastStep' = Step(reqs[w].op, reqs[w].pid, "committed", ErrNone, reqs[w].plan)
  /\ reqs' = [reqs EXCEPT ![w] = Idle]
  /\ UNCHANGED <<agg, prev, last, now, nextId>>

\* The store rejects the transaction (a failed mutation, an abort that is
\* not retried, an unavailable store): Apply returns the store's error.
Reject(w) ==
  /\ reqs[w] # Idle
  /\ lastStep' = Step(reqs[w].op, reqs[w].pid, "rejected", ErrStore, reqs[w].plan)
  /\ reqs' = [reqs EXCEPT ![w] = Idle]
  /\ UNCHANGED <<agg, prev, last, now, products, outbox, nextId>>

Tick ==
  /\ now + TicksPerSecond \in StoreTimes
  /\ now' = now + TicksPerSecond
  /\ UNCHANGED <<agg, prev, last, products, outbox, reqs, nextId, lastStep>>

Next ==
  \/ Tick
  \/ \E w \in Workers : BeginCreateProduct(w)
  \/ \E w \in Workers : BeginUpdateProduct(w)
  \/ \E w \in Workers : BeginActivateProduct(w)
  \/ \E w \in Workers : BeginDeactivateProduct(w)
  \/ \E w \in Workers : BeginApplyDiscount(w)
  \/ \E w \in Workers : BeginRemoveDiscount(w)
  \/ \E w \in Workers : BeginReadFails(w)
  \/ \E w \in Workers : Commit(w)
  \/ \E w \in Workers : Reject(w)

Spec == Init /\ [][Next]_vars

(***************************************************************************)
(* SpecCancel: Spec with the caller's cancellation.  Execute reads its     *)
(* context only inside GetProduct and inside Committer.Apply, and Apply    *)
(* returns nil on an empty plan before it looks at anything else.  A       *)
(* read-write transaction whose context is done commits nothing and        *)
(* returns the context's error.                                            *)
(***************************************************************************)
ErrCanceled == "context canceled"

AdapterApply_WritesCancelled(cancelled, db, plan) ==
  IF PlanIsEmpty(plan) THEN [err |-> ErrNone, db |-> db]
  ELSE IF cancelled THEN [err |-> ErrCanceled, db |-> BufferWrite(db, plan)]
  ELSE LET out == BufferWrite(db, plan)
       IN IF out.ok THEN [err |-> ErrNone, db |-> out] ELSE [err |-> ErrStore, db |-> db]

AdapterApply(cancelled, db, plan) ==
  IF PlanIsEmpty(plan) THEN [err |-> ErrNone, db |-> db]
  ELSE IF cancelled THEN [err |-> ErrCanceled, db |-> db]
  ELSE LET out == BufferWrite(db, plan)
       IN IF out.ok THEN [err |-> ErrNone, db |-> out] ELSE [err |-> ErrStore, db |-> db]

\* The context of a request is cancelled once GetProduct has returned its
\* row: the rest of Execute runs, and Apply is called with a done context.
BeginCancelled(w) ==
  /\ reqs[w] = Idle
  /\ \E pid \in DOMAIN products :
       LET dto == GetProduct(products, pid, now).dto
       IN \E c \in {<<"activate_product", ActivateProductExecute(dto, now, nextId)>>,
                    <<"deactivate_product", DeactivateProductExecute(dto, now, nextId)>>,
                    <<"remove_discount", RemoveDiscountExecute(dto, now, nextId)>>}
                   \cup {<<"update_product", UpdateProductExecute(req, dto, now, nextId)>>
                           : req \in UpdateReqs}
                   \cup {<<"apply_discount", ApplyDiscountExecute(req, dto, now, nextId)>>
                           : req \in DiscountReqs} :
            LET applied == IF c[2].err # ErrNone
                             THEN [err |-> c[2].err,
                                   db  |-> [products |-> products, outbox |-> outbox, ok |-> TRUE]]
                             ELSE AdapterApply(TRUE, [products |-> products, outbox |-> outbox,
                                                      ok |-> TRUE], c[2].plan)
                ids     == IF PlanIsEmpty(c[2].plan) THEN 0 ELSE 1
            IN /\ nextId + ids <= MaxIds + 1
               /\ products' = applied.db.products
               /\ outbox' = applied.db.outbox
               /\ nextId' = nextId + ids
               /\ lastStep' = Step(c[1], pid, "cancelled", applied.err, c[2].plan)
               /\ UNCHANGED <<agg, prev, last, now, reqs>>

\* The context of a request is cancelled while its transaction is under way
\* and has not committed.
Cancel(w) ==
  /\ reqs[w] # Idle
  /\ LET applied == AdapterApply(TRUE, [products |-> products, outbox |-> outbox, ok |-> TRUE],
                                 reqs[w].plan)
     IN /\ products' = applied.db.products
        /\ outbox' = applied.db.outbox
        /\ lastStep' = Step(reqs[w].op, reqs[w].pid, "cancelled", applied.err, reqs[w].plan)
  /\ reqs' = [reqs EXCEPT ![w] = Idle]
  /\ UNCHANGED <<agg, prev, last, now, nextId>>

NextCancel ==
  \/ Next
  \/ \E w \in Workers : BeginCancelled(w)
  \/ \E w \in Workers : Cancel(w)

SpecCancel == Init /\ [][NextCancel]_vars

(***************************************************************************)
(* SpecConc: two requests at a time against one stored product.  Each      *)
(* Execute loads through the read model (client.Single(), outside any      *)
(* transaction) and later hands its plan to the committer, whose           *)
(* transaction only buffers writes; between the two the other request may  *)
(* load and commit.  The store starts as create_product leaves it.         *)
(***************************************************************************)
ConcWorkers == {1, 2}

ConcCreated ==
  CreateProductExecute([Name |-> <<"a">>, Description |-> <<"d">>, Category |-> <<"c">>,
                        BasePriceNum |-> 3, BasePriceDen |-> 2], 0, 1).plan

ConcStore == BufferWrite([products |-> NoCols, outbox |-> <<>>, ok |-> TRUE], ConcCreated)

\* The uuids still to be drawn are those of the two requests.
ConcFirstId == MaxIds - 1

InitConc ==
  /\ agg = NoAgg
  /\ prev = NoAgg
  /\ last = NoCall
  /\ now = 0
  /\ products = ConcStore.products
  /\ outbox = ConcStore.outbox
  /\ reqs = [w \in ConcWorkers |-> Idle]
  /\ nextId = ConcFirstId
  /\ lastStep = [op |-> "create_product", pid |-> 1, outcome |-> "committed", err |-> ErrNone,
                 plan |-> ConcCreated, products |-> NoCols, outbox |-> <<>>]

NextConc ==
  \/ Tick
  \/ \E w \in ConcWorkers : BeginUpdateProduct(w)
  \/ \E w \in ConcWorkers : BeginActivateProduct(w)
  \/ \E w \in ConcWorkers : BeginDeactivateProduct(w)
  \/ \E w \in ConcWorkers : BeginApplyDiscount(w)
  \/ \E w \in ConcWorkers : BeginRemoveDiscount(w)
  \/ \E w \in ConcWorkers : Commit(w)
  \/ \E w \in ConcWorkers : Reject(w)

SpecConc == InitConc /\ [][NextConc]_vars

(***************************************************************************)
(* SpecArchive: SpecConc with the archive command.  Its orchestrator is    *)
(* described with the others (load, business method, one outbox entry per  *)
(* event, plan, Committer) and is built here from Product.Archive and      *)
(* ProductRepo.ArchiveMut as the activate orchestrator is from Activate    *)
(* and UpdateMut.                                                          *)
(***************************************************************************)
ArchiveProductExecute(dto, t, id) ==
  LET res == Archive(Reconstruct(dto, <<>>, NilDiscount), t)
  IN IF res.err # ErrNone THEN Outcome(res.err, NewPlan)
     ELSE Outcome(ErrNone,
                  AddOutboxEvents(PlanAdd(NewPlan, ArchiveMut(res.p)), res.p.events, t, id))

BeginArchiveProduct(w) ==
  /\ reqs[w] = Idle
  /\ \E pid \in ProductIds :
       LET got == GetProduct(products, pid, now)
       IN IF got.err # ErrNone
            THEN Returned("archive_product", pid, got.err)
            ELSE Finish(w, "archive_product", pid, ArchiveProductExecute(got.dto, now, nextId), 1)

NextArchive ==
  \/ NextConc
  \/ \E w \in ConcWorkers : BeginArchiveProduct(w)

SpecArchive == InitConc /\ [][NextArchive]_vars

(***************************************************************************)
(* The transport's reading of discount.percentage.  A text is a sequence   *)
(* of characters.  big.Rat.SetString is given for an optional sign, digits *)
(* and an optional point followed by digits; every other text here is one  *)
(* it refuses.  The float64 result is in thousandths of a percent, which   *)
(* every text of ParseTexts fits exactly.                                  *)
(***************************************************************************)
RECURSIVE DigitsValue(_)
DigitsValue(s) ==
  LET digit == [c \in {"0", "1", "2", "3", "4", "5", "6", "7", "8", "9"} |->
                  CASE c = "0" -> 0 [] c = "1" -> 1 [] c = "2" -> 2 [] c = "3" -> 3
                    [] c = "4" -> 4 [] c = "5" -> 5 [] c = "6" -> 6 [] c = "7" -> 7
                    [] c = "8" -> 8 [] c = "9" -> 9]
  IN IF s = <<>> THEN 0
     ELSE IF s[Len(s)] \notin DOMAIN digit THEN -1
     ELSE LET front == DigitsValue(SubSeq(s, 1, Len(s) - 1))
          IN IF front < 0 THEN -1 ELSE 10 * front + digit[s[Len(s)]]

\* ok is whether the text is a number, r the number, scale the power of
\* ten its digits after the point divide by.
RatSetString(s) ==
  LET neg    == s # <<>> /\ s[1] = "-"
      body   == IF neg THEN Tail(s) ELSE s
      points == {i \in 1..Len(body) : body[i] = "."}
      point  == IF points = {} THEN Len(body) + 1 ELSE CHOOSE i \in points : \A j \in points : i <= j
      whole  == SubSeq(body, 1, point - 1)
      frac   == SubSeq(body, point + 1, Len(body))
      scale  == DigitsValue(<<"1">> \o [i \in 1..Len(frac) |-> "0"])
      ok     == /\ DigitsValue(whole) >= 0 /\ DigitsValue(frac) >= 0
                /\ whole \o frac # <<>>
      n      == DigitsValue(whole) * scale + DigitsValue(frac)
  IN IF ok THEN [ok |-> TRUE, r |-> NewRat(IF neg THEN -n ELSE n, scale)]
     ELSE [ok |-> FALSE, r |-> NewRat(0, 1)]

parseDiscountPercentageToFloat(s) ==
  IF s = <<>> THEN [f |-> 0, err |-> "discount.percentage is required"]
  ELSE LET parsed == RatSetString(s)
       IN IF ~parsed.ok THEN [f |-> 0, err |-> "invalid discount.percentage"]
          ELSE LET r == IF RatCmp(parsed.r, NewRat(1, 1)) <= 0
                          THEN RatMul(parsed.r, NewRat(100, 1))
                          ELSE parsed.r
               IN [f |-> (r.num * MilliPerPercent) \div r.den, err |-> ErrNone]

(***************************************************************************)
(* SpecParse: the transport maps a drawn ApplyDiscountRequest.  last holds *)
(* the request and the apply_discount.Request made of it.                  *)
(***************************************************************************)
MaxTextLen == 3

\* Every text of at most MaxTextLen characters.
ParseTexts == UNION {[1..n -> {"0", "1", "2", ".", "-", "x"}] : n \in 0..MaxTextLen}

\* The product id goes through as it came and is left out.
mapApplyDiscountRequest(text, startDate, endDate) ==
  LET zero == [Percentage |-> 0, StartDate |-> NilTime, EndDate |-> NilTime]
  IN IF startDate = NilTime THEN [req |-> zero, err |-> "discount.start_date is required"]
     ELSE IF endDate = NilTime THEN [req |-> zero, err |-> "discount.end_date is required"]
     ELSE LET pct == parseDiscountPercentageToFloat(text)
          IN IF pct.err # ErrNone THEN [req |-> zero, err |-> pct.err]
             ELSE [req |-> [Percentage |-> pct.f, StartDate |-> startDate, EndDate |-> endDate],
                   err |-> ErrNone]

InitParse ==
  /\ agg = NoAgg
  /\ prev = NoAgg
  /\ \E text \in ParseTexts, startDate \in {NilTime, 1, 2}, endDate \in {NilTime, 1, 2} :
       last = [op |-> "none", err |-> ErrNone,
               args |-> [text |-> text, startDate |-> startDate, endDate |-> endDate],
               res |-> FALSE]
  /\ InitStore

ParseMapApplyDiscountRequest ==
  LET out == mapApplyDiscountRequest(last.args.text, last.args.startDate, last.args.endDate)
  IN /\ last' = [last EXCEPT !.op = "mapApplyDiscountRequest", !.err = out.err, !.res = out.req]
     /\ UNCHANGED <<agg, prev, now, products, outbox, reqs, nextId, lastStep>>

SpecParse == InitParse /\ [][ParseMapApplyDiscountRequest]_vars

(***************************************************************************)
(* SpecCalc: the pricing functions applied to drawn inputs.  last holds    *)
(* the call: the function, its arguments and what it returned.             *)
(***************************************************************************)
CalcTimes    == 0 .. 4
CalcPercents == {0, 20 * MilliPerPercent, 12345, 100 * MilliPerPercent}
CalcPrices   == {NewRat(1999, 100), NewRat(100, 1), NewRat(1, 3)}
CalcWindows  == {<<1, 2>>, <<1, 3>>, <<2, 3>>}

CalcDiscounts ==
  {NewDiscount(pc, w[1], w[2]).d : <<pc, w>> \in CalcPercents \X CalcWindows}

\* What a caller may hand the constructors: a percentage (in thousandths of
\* a percent) below, at the ends of and above [0, 100], and a start and an
\* end in either order or equal.
CalcRaw ==
  [pct   : {-1, 0, 100 * MilliPerPercent, 100 * MilliPerPercent + 1},
   start : {1, 2},
   end   : {1, 2, 3}]

\* The inputs of a call: a discount (or none), a price, an instant, and the
\* arguments of a constructor call.
InitCalc ==
  /\ agg = NoAgg
  /\ prev = NoAgg
  /\ \E discount \in CalcDiscounts \cup {NilDiscount}, price \in CalcPrices, t \in CalcTimes,
        raw \in CalcRaw :
       last = [op |-> "none", err |-> ErrNone,
               args |-> [discount |-> discount, price |-> price, t |-> t, raw |-> raw],
               res |-> FALSE]
  /\ InitStore

\* Both constructors on the same arguments; NewDiscountFromRat takes the
\* percentage as a fraction of one.
CalcNewDiscount ==
  LET raw == last.args.raw
  IN /\ last' = [last EXCEPT
                   !.op  = "NewDiscount",
                   !.res = [out     |-> NewDiscount(raw.pct, raw.start, raw.end),
                            fromRat |-> NewDiscountFromRat(
                                          NewRat(raw.pct, 100 * MilliPerPercent),
                                          raw.start, raw.end)]]
     /\ UNCHANGED <<agg, prev, now, products, outbox, reqs, nextId, lastStep>>

CalcIsValidAt ==
  /\ last.args.discount # NilDiscount
  /\ last' = [last EXCEPT !.op = "IsValidAt",
                          !.res = IsValidAt(last.args.discount, last.args.t)]
  /\ UNCHANGED <<agg, prev, now, products, outbox, reqs, nextId, lastStep>>

CalcApplyTo ==
  /\ last.args.discount # NilDiscount
  /\ last' = [last EXCEPT !.op = "ApplyTo",
                          !.res = ApplyTo(last.args.discount, last.args.price)]
  /\ UNCHANGED <<agg, prev, now, products, outbox, reqs, nextId, lastStep>>

\* The product as the write side holds it, its row as the repository stores
\* it, and the effective price each side computes from its own copy.
CalcEffectivePrice ==
  LET t   == last.args.t
      p   == ReconstructProduct(1, <<"a">>, <<>>, <<"c">>, last.args.price, last.args.discount,
                                domain.ProductStatusActive, 0, 0, NilTime)
      row == buildInsertValues(p)
  IN /\ last' = [last EXCEPT
                   !.op  = "EffectivePrice",
                   !.res = [aggregate  |-> CalculateEffectivePrice(p, t),
                            calculator |-> PricingCalculatorEffectivePrice(p.basePrice, p.discount, t),
                            readSide   |-> computeEffectivePrice(
                                            row[m_product.ColBasePriceNumerator],
                                            row[m_product.ColBasePriceDenominator],
                                            row[m_product.ColDiscountPercent],
                                            row[m_product.ColDiscountStartDate],
                                            row[m_product.ColDiscountEndDate], t)]]
     \* the receiver before the call and as the call leaves it: neither
     \* method assigns a field, and Money's arithmetic allocates its result
     /\ prev' = p
     /\ agg' = p
     /\ UNCHANGED <<now, products, outbox, reqs, nextId, lastStep>>

NextCalc ==
  \/ CalcNewDiscount
  \/ CalcIsValidAt
  \/ CalcApplyTo
  \/ CalcEffectivePrice

SpecCalc == InitCalc /\ [][NextCalc]_vars

(***************************************************************************)
(* Properties of the aggregate (SpecAgg).  prev, agg and last describe     *)
(* the last call; as every call is the last one in some reachable state,   *)
(* an invariant over them speaks of every call of every sequence.          *)
(***************************************************************************)
AfterCall == last.op # "none" /\ prev # NoAgg /\ agg # NoAgg
Failed    == last.err # ErrNone
Appended  == Len(agg.events) - Len(prev.events)

DataFields == {"name", "description", "category", "basePrice", "discount", "status",
               "archivedAt"}
DataChanged == \E f \in DataFields : agg[f] # prev[f]

StatusEdge == <<prev.status, agg.status>>

SpecEdges ==
  { <<domain.ProductStatusDraft, domain.ProductStatusActive>>,
    <<domain.ProductStatusActive, domain.ProductStatusInactive>>,
    <<domain.ProductStatusInactive, domain.ProductStatusActive>>,
    <<domain.ProductStatusDraft, domain.ProductStatusArchived>>,
    <<domain.ProductStatusInactive, domain.ProductStatusArchived>> }

\* C4 as stated: the only status changes are draft->active, active->inactive,
\* inactive->active, draft->archived and inactive->archived.
C4_OnlySpecEdges ==
  (AfterCall /\ prev.status # agg.status) => StatusEdge \in SpecEdges

\* C4, amended: the status changes that occur are the five edges above and
\* draft->inactive (Deactivate rejects only archived and inactive products);
\* active->archived never occurs, and a freshly created product is a draft.
C4_StatusEdges ==
  /\ (AfterCall /\ prev.status # agg.status) =>
       StatusEdge \in SpecEdges \cup {<<domain.ProductStatusDraft, domain.ProductStatusInactive>>}
  /\ (last.op = "NewProduct" /\ ~Failed) => agg.status = domain.ProductStatusDraft

C4_Witness ==
  /\ AfterCall
  /\ last.op = "Deactivate"
  /\ StatusEdge = <<domain.ProductStatusDraft, domain.ProductStatusInactive>>

\* C5: a business method that returns an error leaves the aggregate (name,
\* description, category, price, discount, status, archivedAt, updatedAt,
\* dirty fields, pending events) exactly as it was before the call.
C5_FailureChangesNothing ==
  (last.op # "none" /\ Failed) => agg = prev

C7_ArchivedAtIffArchived ==
  agg # NoAgg => (agg.archivedAt # NilTime <=> agg.status = domain.ProductStatusArchived)

C7_Witness ==
  /\ AfterCall
  /\ last.op = "Archive"
  /\ ~Failed
  /\ agg.status = domain.ProductStatusArchived
  /\ agg.archivedAt = last.args.t

\* C8: a successful call appends exactly one event when it changed a field
\* and none when it changed nothing; no call appends more than one event or
\* alters the events already pending; a failing call appends none.
C8_OneEventPerNetChange ==
  /\ (last.op = "NewProduct" /\ ~Failed) => Len(agg.events) = 1
  /\ (last.op = "NewProduct" /\ Failed) => agg = NoAgg
  /\ AfterCall =>
       /\ Appended \in {0, 1}
       /\ SubSeq(agg.events, 1, Len(prev.events)) = prev.events
       /\ Failed => Appended = 0
       /\ ~Failed => (Appended = 1 <=> DataChanged)

C8_Witness ==
  /\ AfterCall
  /\ last.op = "RemoveDiscount"
  /\ ~Failed
  /\ Appended = 0
  /\ prev.discount = NilDiscount

\* C9: ApplyDiscount fails with not-active unless the status is active, else
\* with not-valid unless start <= now < end, else with already-exists when a
\* discount is attached; otherwise it succeeds, attaches the discount, marks
\* the discount field dirty, sets updatedAt to now and appends one
\* discount-applied event.
C9_Expected ==
  LET d == last.args.discount
      t == last.args.t
  IN IF prev.status # domain.ProductStatusActive THEN domain.ErrProductNotActive
     ELSE IF ~(d.startDate <= t /\ t < d.endDate) THEN domain.ErrDiscountNotValid
     ELSE IF prev.discount # NilDiscount THEN domain.ErrDiscountAlreadyExists
     ELSE ErrNone

C9_ApplyDiscountContract ==
  (AfterCall /\ last.op = "ApplyDiscount") =>
    /\ last.err = C9_Expected
    /\ ~Failed =>
         /\ agg.discount = last.args.discount
         /\ agg.changes = prev.changes \cup {domain.FieldDiscount}
         /\ agg.updatedAt = last.args.t
         /\ Appended = 1
         /\ agg.events[Len(agg.events)].type = "product.discount_applied"
         /\ \A f \in DataFields \ {"discount"} : agg[f] = prev[f]

C9_Witness ==
  /\ AfterCall
  /\ last.op = "ApplyDiscount"
  /\ last.err = domain.ErrDiscountAlreadyExists
  /\ ~(prev.discount.startDate <= last.args.t /\ last.args.t < prev.discount.endDate)

(***************************************************************************)
(* Properties of the write requests (Spec).  lastStep describes the last   *)
(* step any request took, with the tables as they were before it; a load   *)
(* that returns, fails or plans is a begin step and saw those tables.      *)
(***************************************************************************)
RemoveOnUndiscounted ==
  AfterCall /\ last.op = "RemoveDiscount" /\ prev.discount = NilDiscount

CalcOf(op) == last.op = op

\* C12: IsValidAt(t) is true exactly when start <= t < end: true at start
\* and up to the last instant before end, false at end and before start.
C12_HalfOpenWindow ==
  CalcOf("IsValidAt") =>
    LET d == last.args.discount
        t == last.args.t
    IN /\ last.res <=> (d.startDate <= t /\ t < d.endDate)
       /\ t = d.startDate => last.res
       /\ t = d.endDate - 1 => last.res
       /\ t = d.endDate => ~last.res
       /\ t = d.startDate - 1 => ~last.res

C12_Witness ==
  /\ CalcOf("IsValidAt")
  /\ last.args.t = last.args.discount.endDate
  /\ last.args.discount.startDate + 2 = last.args.discount.endDate
  /\ ~last.res

\* C13: for the same base price, discount and instant the read side's
\* computeEffectivePrice returns what the aggregate's CalculateEffectivePrice
\* returns, at every instant, the discount's end included.
C13_ReadSideMatchesAggregate ==
  CalcOf("EffectivePrice") => last.res.readSide = last.res.aggregate

\* C14: ApplyTo is exact: with the percentage p hundredths of a percent, the
\* result r of ApplyTo on the price n/d is n * (10000 - p) / (d * 10000) in
\* lowest terms, which is n/d - n/d * p/10000 with nothing rounded;
\* 1999/100 at 20% is 1999/125, rendered 15.9920000000, and 100 at 20% is 80.
C14_Hundredths ==
  LET pct == last.args.discount.percentage
  IN pct.num * (PercentScale \div pct.den)

C14_ApplyToExact ==
  CalcOf("ApplyTo") =>
    LET price == last.args.price
        r     == last.res
    IN /\ r = NewRat(price.num * (PercentScale - C14_Hundredths), price.den * PercentScale)
       /\ r.den > 0
       /\ GCD(Abs(r.num), r.den) = 1
       /\ (price = NewRat(1999, 100) /\ C14_Hundredths = 2000) =>
            /\ r = [num |-> 1999, den |-> 125]
            /\ FloatString(r, FloatPrec) =
                 [neg |-> FALSE, int |-> 15, frac |-> <<9, 9, 2, 0, 0, 0, 0, 0, 0, 0>>]
       /\ (price = NewRat(100, 1) /\ C14_Hundredths = 2000) => r = [num |-> 80, den |-> 1]

C14_Witness ==
  /\ CalcOf("ApplyTo")
  /\ last.args.price = NewRat(1999, 100)
  /\ C14_Hundredths = 2000
  /\ last.res = [num |-> 1999, den |-> 125]

BeginStep  == lastStep.outcome \in {"failed", "empty", "planned"}
Committed  == lastStep.outcome = "committed"
Rejected   == lastStep.outcome = "rejected"
FailedStep == lastStep.outcome = "failed"

TablesUnchanged == products = lastStep.products /\ outbox = lastStep.outbox

NewOutboxRows == SubSeq(outbox, Len(lastStep.outbox) + 1, Len(outbox))

Loaded == lastStep.products[lastStep.pid]

HasDiscount(row) == row[m_product.ColDiscountPercent].valid

DiscountColumns == {m_product.ColDiscountPercent, m_product.ColDiscountStartDate, m_product.ColDiscountEndDate}

EventTypeOf(op) ==
  CASE op = "create_product"     -> "product.created"
    [] op = "update_product"     -> "product.updated"
    [] op = "activate_product"   -> "product.activated"
    [] op = "deactivate_product" -> "product.deactivated"
    [] op = "apply_discount"     -> "product.discount_applied"
    [] op = "remove_discount"    -> "product.discount_removed"

InEffect(m) ==
  IF m.table = m_outbox.TableName
    THEN \E i \in DOMAIN NewOutboxRows : NewOutboxRows[i] = m.values
    ELSE /\ m.values[m_product.ColProductID] \in DOMAIN products
         /\ \A c \in DOMAIN m.values : products[m.values[m_product.ColProductID]][c] = m.values[c]

\* C1: Apply on a non-empty plan is all-or-nothing.  When the store rejects
\* the transaction the request ends with the store's error and the tables
\* are as before: no product row changed, no outbox row of the plan exists.
\* When it commits, every mutation of the plan is in effect.
C1_ApplyAllOrNothing ==
  /\ (Committed \/ Rejected) => ~PlanIsEmpty(lastStep.plan)
  /\ Rejected =>
       /\ lastStep.err = ErrStore
       /\ TablesUnchanged
       /\ \A i \in DOMAIN lastStep.plan :
            lastStep.plan[i].table = m_outbox.TableName =>
              lastStep.plan[i].values[m_outbox.ColEventID] \notin OutboxKeys(outbox)
  /\ Committed =>
       /\ lastStep.err = ErrNone
       /\ \A i \in DOMAIN lastStep.plan : InEffect(lastStep.plan[i])
       /\ Len(outbox) - Len(lastStep.outbox) =
            Cardinality({i \in DOMAIN lastStep.plan : lastStep.plan[i].table = m_outbox.TableName})

C1_Witness ==
  /\ Rejected
  /\ lastStep.op = "create_product"
  /\ Len(lastStep.plan) = 2
  /\ lastStep.pid \notin DOMAIN products
  /\ outbox = <<>>

\* C2: the tables change only in commits; a commit that changed a product
\* row inserted the outbox row of that command's event (same aggregate, the
\* command's event type, pending, stamped with the command's now), and every
\* outbox row a commit inserted came with a write of its product's row.
C2_RowAndOutboxTogether ==
  /\ ~Committed => (lastStep.outcome = "none" \/ TablesUnchanged)
  /\ Committed =>
       /\ SubSeq(outbox, 1, Len(lastStep.outbox)) = lastStep.outbox
       /\ products # lastStep.products =>
            /\ Len(NewOutboxRows) = 1
            /\ NewOutboxRows[1][m_outbox.ColAggregateID] = lastStep.pid
            /\ NewOutboxRows[1][m_outbox.ColEventType] = EventTypeOf(lastStep.op)
            /\ NewOutboxRows[1][m_outbox.ColStatus] = OutboxStatusPending
            /\ NewOutboxRows[1][m_outbox.ColCreatedAt] = products[lastStep.pid][m_product.ColUpdatedAt]
       /\ \A i \in DOMAIN NewOutboxRows :
            /\ NewOutboxRows[i][m_outbox.ColAggregateID] \in DOMAIN products
            /\ \E j \in DOMAIN lastStep.plan :
                 /\ lastStep.plan[j].table = m_product.TableName
                 /\ lastStep.plan[j].values[m_product.ColProductID] = NewOutboxRows[i][m_outbox.ColAggregateID]
                 /\ InEffect(lastStep.plan[j])

C2_Witness ==
  /\ Committed
  /\ lastStep.op = "apply_discount"
  /\ products # lastStep.products
  /\ Len(NewOutboxRows) = 1
  /\ Len(outbox) >= 3

\* C3: when the load fails (no such row, a read error) or the business method
\* returns an error, the request returns that error with no plan applied and
\* the tables are as before; a failed apply-discount on a draft product
\* leaves its discount columns null and no discount-applied outbox row.
C3_FailureAppliesNothing ==
  /\ FailedStep =>
       /\ lastStep.err # ErrNone
       /\ PlanIsEmpty(lastStep.plan)
       /\ TablesUnchanged
  /\ (BeginStep /\ lastStep.op \in LoadingOps /\ lastStep.pid \notin DOMAIN lastStep.products)
       => (FailedStep /\ lastStep.err = ErrRowNotFound)
  /\ (BeginStep /\ lastStep.op \in LoadingOps /\ lastStep.pid \in DOMAIN lastStep.products) =>
       /\ (lastStep.op = "activate_product" /\ Loaded[m_product.ColStatus] = domain.ProductStatusActive)
            => (FailedStep /\ lastStep.err \in {domain.ErrProductAlreadyActive, ErrRead})
       /\ (lastStep.op = "deactivate_product" /\ Loaded[m_product.ColStatus] = domain.ProductStatusInactive)
            => (FailedStep /\ lastStep.err \in {domain.ErrProductAlreadyInactive, ErrRead})
       /\ (lastStep.op = "apply_discount" /\ Loaded[m_product.ColStatus] = domain.ProductStatusDraft) =>
            /\ FailedStep
            /\ lastStep.err \in {domain.ErrProductNotActive, domain.ErrInvalidDiscountPercentage, ErrRead}
            /\ \A c \in DiscountColumns : ~products[lastStep.pid][c].valid
            /\ \A i \in DOMAIN outbox :
                 outbox[i][m_outbox.ColAggregateID] = lastStep.pid
                   => outbox[i][m_outbox.ColEventType] # "product.discount_applied"

C3_Witness ==
  /\ FailedStep
  /\ lastStep.op = "apply_discount"
  /\ lastStep.err = domain.ErrProductNotActive
  /\ lastStep.pid \in DOMAIN products
  /\ products[lastStep.pid][m_product.ColStatus] = domain.ProductStatusDraft
  /\ ~HasDiscount(products[lastStep.pid])
  /\ Len(outbox) = 1

\* Errors an apply-discount request returns before it calls ApplyDiscount.
BeforeTheCall == {ErrRead, domain.ErrInvalidDiscountPercentage, domain.ErrInvalidDiscountPeriod}

ApplyOnDiscounted ==
  /\ BeginStep
  /\ lastStep.op = "apply_discount"
  /\ lastStep.pid \in DOMAIN lastStep.products
  /\ HasDiscount(Loaded)

\* C10 as stated: while a discount is attached every ApplyDiscount call
\* fails with already-exists.
C10_AlwaysAlreadyExists ==
  (ApplyOnDiscounted /\ lastStep.err \notin BeforeTheCall)
    => lastStep.err = domain.ErrDiscountAlreadyExists

\* C10, amended: a row holds one discount (its three columns are all set or
\* all null); an apply-discount command that loads a row with a discount,
\* expired or not, fails and writes nothing, with already-exists when the
\* product is active and the new discount valid now, and with not-active or
\* not-valid before that; the discount columns change only when an
\* apply-discount commit sets them or a remove-discount commit nulls them.
C10_OneDiscount ==
  /\ \A id \in DOMAIN products :
       \A c \in DiscountColumns : products[id][c].valid = HasDiscount(products[id])
  /\ ApplyOnDiscounted =>
       /\ FailedStep
       /\ TablesUnchanged
       /\ lastStep.err \notin BeforeTheCall =>
            /\ lastStep.err \in {domain.ErrProductNotActive, domain.ErrDiscountNotValid,
                                 domain.ErrDiscountAlreadyExists}
            /\ Loaded[m_product.ColStatus] # domain.ProductStatusActive => lastStep.err = domain.ErrProductNotActive
  /\ \A id \in DOMAIN products, req \in DiscountReqs :
       HasDiscount(products[id]) =>
         LET out == ApplyDiscountExecute(req, GetProduct(products, id, now).dto, now, nextId)
         IN out.err # ErrNone /\ PlanIsEmpty(out.plan)
  /\ \A id \in DOMAIN products \cap DOMAIN lastStep.products :
       (\E c \in DiscountColumns : products[id][c] # lastStep.products[id][c]) =>
         /\ Committed
         /\ id = lastStep.pid
         /\ \/ lastStep.op = "apply_discount" /\ HasDiscount(products[id])
            \/ lastStep.op = "remove_discount" /\ ~HasDiscount(products[id])

C10_Witness ==
  /\ ApplyOnDiscounted
  /\ lastStep.err = domain.ErrDiscountAlreadyExists
  /\ ~(now < Loaded[m_product.ColDiscountEndDate].v)
  /\ TablesUnchanged

\* The one defect of a create request, and the error the claim gives it.
C15_Defect(req) ==
  IF req.BasePriceDen = 0 THEN "none"
  ELSE IF TrimSpace(req.Name) = <<>> THEN "name"
  ELSE IF TrimSpace(req.Category) = <<>> THEN "category"
  ELSE IF req.BasePriceNum = 0 THEN "zero"
  ELSE IF (req.BasePriceNum < 0) # (req.BasePriceDen < 0) THEN "negative"
  ELSE "none"

C15_ErrorOf ==
  [name     |-> domain.ErrEmptyProductName,
   category |-> domain.ErrEmptyProductCategory,
   zero     |-> domain.ErrZeroPrice,
   negative |-> domain.ErrNegativePrice]

\* C15: a create request with an empty name, an empty category, a zero price
\* or a negative price fails with its own error (empty-name, empty-category,
\* zero-price, negative-price): NewProduct returns no aggregate and so no
\* event, Execute returns the error with an empty plan, and the step leaves
\* the products table and the outbox as they were.
C15_CreateRejectsInvalid ==
  /\ \A req \in CreateReqs :
       C15_Defect(req) # "none" =>
         LET price == NewMoney(req.BasePriceNum, req.BasePriceDen).m
             made  == NewProduct(nextId, req.Name, req.Description, req.Category, price, now)
             out   == CreateProductExecute(req, now, nextId)
         IN /\ made.err = C15_ErrorOf[C15_Defect(req)]
            /\ made.p = NoAgg
            /\ out.err = made.err
            /\ PlanIsEmpty(out.plan)
  /\ (lastStep.op = "create_product"
        /\ lastStep.err \in {C15_ErrorOf[k] : k \in DOMAIN C15_ErrorOf}) =>
       /\ FailedStep
       /\ lastStep.plan = NewPlan
       /\ TablesUnchanged
       /\ \E req \in CreateReqs :
            C15_Defect(req) # "none" /\ C15_ErrorOf[C15_Defect(req)] = lastStep.err
  /\ Cardinality({C15_ErrorOf[k] : k \in DOMAIN C15_ErrorOf}) = 4

C15_Witness ==
  /\ lastStep.op = "create_product"
  /\ lastStep.err = domain.ErrZeroPrice
  /\ FailedStep
  /\ TablesUnchanged
  /\ DOMAIN products # {}

ProductColumns ==
  {m_product.ColProductID, m_product.ColName, m_product.ColDescription, m_product.ColCategory,
   m_product.ColBasePriceNumerator, m_product.ColBasePriceDenominator,
   m_product.ColDiscountPercent, m_product.ColDiscountStartDate, m_product.ColDiscountEndDate,
   m_product.ColStatus, m_product.ColCreatedAt, m_product.ColUpdatedAt, m_product.ColArchivedAt}

CreateCommitted == Committed /\ lastStep.op = "create_product"

\* C16: a committed create adds exactly one product row, under the id the
\* request returns, and changes no other row; the row has every column of
\* the table, status draft, a name, a category and a positive price, the
\* creation time in created_at and updated_at, and null in the three
\* discount columns and in archived_at (description is null when empty); it
\* adds exactly one outbox row, for that id, of type product.created, with
\* status pending.
C16_CreatePersistsDraft ==
  CreateCommitted =>
    /\ lastStep.pid \notin DOMAIN lastStep.products
    /\ DOMAIN products = DOMAIN lastStep.products \cup {lastStep.pid}
    /\ \A id \in DOMAIN lastStep.products : products[id] = lastStep.products[id]
    /\ LET row == products[lastStep.pid]
       IN /\ DOMAIN row = ProductColumns
          /\ row[m_product.ColProductID] = lastStep.pid
          /\ row[m_product.ColStatus] = domain.ProductStatusDraft
          /\ row[m_product.ColName] # <<>>
          /\ row[m_product.ColCategory] # <<>>
          /\ row[m_product.ColBasePriceNumerator] > 0
          /\ row[m_product.ColBasePriceDenominator] > 0
          /\ row[m_product.ColCreatedAt] = row[m_product.ColUpdatedAt]
          /\ row[m_product.ColDescription] # NotNull(<<>>)
          /\ \A c \in DiscountColumns \cup {m_product.ColArchivedAt} : row[c] = Null
    /\ Len(NewOutboxRows) = 1
    /\ SubSeq(outbox, 1, Len(lastStep.outbox)) = lastStep.outbox
    /\ NewOutboxRows[1][m_outbox.ColAggregateID] = lastStep.pid
    /\ NewOutboxRows[1][m_outbox.ColEventType] = "product.created"
    /\ NewOutboxRows[1][m_outbox.ColStatus] = OutboxStatusPending

C16_Witness ==
  /\ CreateCommitted
  /\ DOMAIN lastStep.products # {}
  /\ products[lastStep.pid][m_product.ColStatus] = domain.ProductStatusDraft
  /\ Len(outbox) = Len(lastStep.outbox) + 1

UpdatePlanned == lastStep.outcome = "planned" /\ lastStep.op # "create_product"

\* The columns an update mutation writes besides the key and updated_at.
Written(m) == DOMAIN m.values \ {m_product.ColProductID, m_product.ColUpdatedAt}

DetailColumns == {m_product.ColName, m_product.ColDescription, m_product.ColCategory}

\* The columns of the fields the command's business method can mark dirty.
C17_ColumnsOf(op) ==
  CASE op = "update_product"     -> DetailColumns
    [] op = "activate_product"   -> {m_product.ColStatus}
    [] op = "deactivate_product" -> {m_product.ColStatus}
    [] op = "apply_discount"     -> DiscountColumns
    [] op = "remove_discount"    -> DiscountColumns

\* C17: the update mutation of a loaded aggregate writes the key, updated_at
\* and exactly the columns of the fields the business method changed: every
\* written column carries a value other than the loaded one, the detail
\* columns written by an update are those among name, description and
\* category that changed, an activation or deactivation writes status only,
\* a discount command the three discount columns only.  When the method
\* changed nothing, the plan holds no mutation and nothing is written.
C17_OnlyDirtyColumns ==
  /\ UpdatePlanned =>
       LET m == lastStep.plan[1]
       IN /\ m.kind = "update"
          /\ m.table = m_product.TableName
          /\ {m_product.ColProductID, m_product.ColUpdatedAt} \subseteq DOMAIN m.values
          /\ m.values[m_product.ColProductID] = lastStep.pid
          /\ Written(m) # {}
          /\ Written(m) \subseteq C17_ColumnsOf(lastStep.op)
          /\ \A c \in Written(m) : m.values[c] # Loaded[c]
          /\ lastStep.op # "update_product" => Written(m) = C17_ColumnsOf(lastStep.op)
          /\ \A i \in 2 .. Len(lastStep.plan) : lastStep.plan[i].table = m_outbox.TableName
  /\ lastStep.outcome = "empty" => (lastStep.plan = NewPlan /\ TablesUnchanged)

C17_Witness ==
  /\ UpdatePlanned
  /\ lastStep.op = "update_product"
  /\ Written(lastStep.plan[1]) = {m_product.ColName, m_product.ColCategory}

\* An outbox row of an earlier commit and a row of the same product appended
\* by the commit just made.
EarlierAndLaterRows ==
  {<<i, j>> \in (DOMAIN outbox) \X (DOMAIN outbox) :
     /\ i <= Len(lastStep.outbox)
     /\ j > Len(lastStep.outbox)
     /\ outbox[i][m_outbox.ColAggregateID] = outbox[j][m_outbox.ColAggregateID]}

\* C18: of two commands on one product committed one after the other, the
\* later one's outbox row sorts after the earlier one's by created_at: its
\* created_at is the greater.
C18_LaterRowSortsAfter ==
  Committed =>
    \A r \in EarlierAndLaterRows :
      outbox[r[1]][m_outbox.ColCreatedAt] < outbox[r[2]][m_outbox.ColCreatedAt]

\* The requests in flight on product pid: loaded, plan built, not committed.
InFlightOn(pid) == {w \in DOMAIN reqs : reqs[w] # Idle /\ reqs[w].pid = pid}

\* The outbox rows a plan inserts, in plan order.
RECURSIVE OutboxRowsOf(_)
OutboxRowsOf(plan) ==
  IF plan = <<>> THEN <<>>
  ELSE IF Head(plan).table = m_outbox.TableName
    THEN <<Head(plan).values>> \o OutboxRowsOf(Tail(plan))
  ELSE OutboxRowsOf(Tail(plan))

StoreNow == [products |-> products, outbox |-> outbox, ok |-> TRUE]

\* The value column c of the row has after the update m, the row having
\* held old before it.
WrittenOver(m, old, c) == IF c \in DOMAIN m.values THEN m.values[c] ELSE old[c]

ChangedFields(row) == {ch[1] : ch \in row[m_outbox.ColPayload].changes}

\* C19: two write commands on one product that both loaded before either
\* committed both succeed.  Whatever the other request has done since the
\* load, the store accepts the plan of a request in flight (nothing in the
\* plan depends on the row as it was loaded: no lock, no version check).
\* A commit leaves in each column of the product row the value its update
\* wrote, and the stored value in every column its update left out; so when
\* a second request loaded before the first one's commit commits after it,
\* each column holds the value of the last of the two commits that wrote it,
\* or the value from before both, and the outbox holds the rows of both
\* after the rows it held before.
C19_LastWriteWins ==
  /\ \A w \in DOMAIN reqs : reqs[w] # Idle => BufferWrite(StoreNow, reqs[w].plan).ok
  /\ (Committed /\ lastStep.op # "create_product") =>
       LET pid   == lastStep.pid
           first == lastStep.plan[1]
           old   == lastStep.products[pid]
       IN /\ DOMAIN products[pid] = DOMAIN old
          /\ \A c \in DOMAIN old : products[pid][c] = WrittenOver(first, old, c)
          /\ outbox = lastStep.outbox \o OutboxRowsOf(lastStep.plan)
          /\ \A w \in InFlightOn(pid) :
               LET second == reqs[w].plan[1]
                   db     == BufferWrite(StoreNow, reqs[w].plan)
               IN /\ db.ok
                  /\ \A c \in DOMAIN old :
                       db.products[pid][c] =
                         IF c \in DOMAIN second.values THEN second.values[c]
                         ELSE WrittenOver(first, old, c)
                  /\ db.outbox = lastStep.outbox \o OutboxRowsOf(lastStep.plan)
                                                 \o OutboxRowsOf(reqs[w].plan)

\* Both updates loaded the name the product was created with (each reports
\* the name as changed); the first to commit also wrote the category, which
\* the second, committing after it, left as the first wrote it.
C19_Witness ==
  /\ Committed
  /\ lastStep.op = "update_product"
  /\ Len(outbox) = 3
  /\ outbox[2][m_outbox.ColEventType] = "product.updated"
  /\ outbox[3][m_outbox.ColEventType] = "product.updated"
  /\ ChangedFields(outbox[2]) = {domain.FieldName, domain.FieldCategory}
  /\ ChangedFields(outbox[3]) = {domain.FieldName}
  /\ products[1][m_product.ColName] = <<"b">>
  /\ products[1][m_product.ColCategory] = <<"e">>

PlannedKinds(table) ==
  {lastStep.plan[i].kind : i \in {k \in DOMAIN lastStep.plan : lastStep.plan[k].table = table}}

\* C20: the outbox is append-only.  Every outbox row in the store has status
\* pending and a null processed_at; the only mutation a command builds for
\* the outbox table is an insert, and for the products table an insert or an
\* update; whatever the last step was, the outbox rows there were before it
\* are still there, unchanged and in place, and so is every product row's
\* key.
C20_OutboxAppendOnly ==
  /\ \A i \in DOMAIN outbox :
       /\ outbox[i][m_outbox.ColStatus] = OutboxStatusPending
       /\ outbox[i][m_outbox.ColProcessedAt] = Null
  /\ PlannedKinds(m_outbox.TableName) \subseteq {"insert"}
  /\ PlannedKinds(m_product.TableName) \subseteq {"insert", "update"}
  /\ Len(lastStep.outbox) <= Len(outbox)
  /\ \A i \in DOMAIN lastStep.outbox : outbox[i] = lastStep.outbox[i]
  /\ DOMAIN lastStep.products \subseteq DOMAIN products

C20_Witness ==
  /\ Committed
  /\ lastStep.op = "deactivate_product"
  /\ Len(lastStep.outbox) = 2
  /\ Len(outbox) = 3
  /\ outbox[3][m_outbox.ColEventType] = "product.deactivated"
  /\ outbox[3][m_outbox.ColProcessedAt] = Null
  /\ lastStep.pid \in DOMAIN lastStep.products

(***************************************************************************)
(* Events and outbox rows (Spec).                                          *)
(***************************************************************************)
OutboxPart(plan) == SelectSeq(plan, LAMBDA m : m.table = m_outbox.TableName)

\* What each command would plan on the tables as they are, beside the events
\* its business method leaves pending on the aggregate the command rebuilt.
C21_Creates ==
  { [out    |-> CreateProductExecute(req, now, nextId),
     events |-> IF CreateProductExecute(req, now, nextId).err # ErrNone THEN <<>>
                ELSE NewProduct(nextId, req.Name, req.Description, req.Category,
                                NewMoney(req.BasePriceNum, req.BasePriceDen).m, now).p.events]
    : req \in CreateReqs }

C21_OnLoaded(dto) ==
  LET bare   == Reconstruct(dto, <<>>, NilDiscount)
      plain  == Reconstruct(dto, DescriptionOf(dto), NilDiscount)
      IN { [out    |-> ActivateProductExecute(dto, now, nextId),
            events |-> IF ActivateProductExecute(dto, now, nextId).err # ErrNone THEN <<>>
                       ELSE Activate(bare, now).p.events],
           [out    |-> DeactivateProductExecute(dto, now, nextId),
            events |-> IF DeactivateProductExecute(dto, now, nextId).err # ErrNone THEN <<>>
                       ELSE Deactivate(bare, now).p.events],
           [out    |-> RemoveDiscountExecute(dto, now, nextId),
            events |-> IF RemoveDiscountExecute(dto, now, nextId).err # ErrNone THEN <<>>
                       ELSE RemoveDiscount(Reconstruct(dto, DescriptionOf(dto),
                                                       ExistingDiscount(dto).d), now).p.events] }
         \cup
         { [out    |-> UpdateProductExecute(req, dto, now, nextId),
            events |-> IF UpdateProductExecute(req, dto, now, nextId).err # ErrNone THEN <<>>
                       ELSE UpdateDetails(plain, OrEmpty(req.Name), OrEmpty(req.Description),
                                          OrEmpty(req.Category), now).p.events]
           : req \in UpdateReqs }
         \cup
         { [out    |-> ApplyDiscountExecute(req, dto, now, nextId),
            events |-> IF ApplyDiscountExecute(req, dto, now, nextId).err # ErrNone THEN <<>>
                       ELSE ApplyDiscount(Reconstruct(dto, DescriptionOf(dto),
                                                      ExistingDiscount(dto).d),
                                          NewDiscount(req.Percentage, req.StartDate,
                                                      req.EndDate).d, now).p.events]
           : req \in DiscountReqs }

C21_Commands ==
  C21_Creates \cup UNION {C21_OnLoaded(GetProduct(products, id, now).dto) : id \in DOMAIN products}

\* C21: a command whose business method succeeded plans exactly one outbox
\* insert for each event the method left pending, in order, with that
\* event's type and aggregate id and an event id no stored row and no other
\* row of the plan has; a commit appends exactly the rows of the plan's
\* outbox inserts; and the event ids of the stored outbox rows are pairwise
\* distinct.
C21_OneRowPerEvent ==
  /\ Cardinality(OutboxKeys(outbox)) = Len(outbox)
  /\ Committed =>
       LET planned == OutboxPart(lastStep.plan)
       IN NewOutboxRows = [i \in 1..Len(planned) |-> planned[i].values]
  /\ \A c \in C21_Commands :
       c.out.err = ErrNone =>
         LET rows == OutboxPart(c.out.plan)
         IN /\ Len(rows) = Len(c.events)
            /\ \A i \in DOMAIN rows :
                 /\ rows[i].values[m_outbox.ColEventType] = c.events[i].type
                 /\ rows[i].values[m_outbox.ColAggregateID] = c.events[i].productId
                 /\ rows[i].values[m_outbox.ColEventID] \notin OutboxKeys(outbox)
                 /\ \A j \in DOMAIN rows :
                      i # j => rows[i].values[m_outbox.ColEventID]
                                 # rows[j].values[m_outbox.ColEventID]

C21_Witness ==
  /\ Committed
  /\ lastStep.op = "activate_product"
  /\ Len(outbox) = 3
  /\ Cardinality(OutboxKeys(outbox)) = 3
  /\ outbox[2][m_outbox.ColEventType] = "product.deactivated"
  /\ outbox[3][m_outbox.ColEventType] = "product.activated"
  /\ outbox[3][m_outbox.ColAggregateID] = outbox[1][m_outbox.ColAggregateID]

\* The update requests that supply, for each field, nothing, the empty
\* string or the value the row holds.
C27_SameAsStored(row) ==
  LET desc == IF row[m_product.ColDescription].valid THEN row[m_product.ColDescription].v ELSE <<>>
  IN { [Name |-> n, Description |-> d, Category |-> c] :
         n \in {Null, NotNull(<<>>), NotNull(row[m_product.ColName])},
         d \in {Null, NotNull(<<>>), NotNull(desc)},
         c \in {Null, NotNull(<<>>), NotNull(row[m_product.ColCategory])} }

\* C27: a command whose business method succeeds without a net change
\* returns success with an empty plan and no transaction: an update that
\* supplies only empty strings or the stored values, a remove-discount on a
\* product without a discount.  After such a return nothing is in flight, the
\* product row (updated_at included) and the outbox are as they were.
C27_NoChangeNoWrite ==
  /\ lastStep.outcome = "empty" =>
       /\ lastStep.err = ErrNone
       /\ PlanIsEmpty(lastStep.plan)
       /\ TablesUnchanged
       /\ \A w \in DOMAIN reqs : reqs[w] = Idle
  /\ (BeginStep /\ lastStep.op = "remove_discount" /\ lastStep.pid \in DOMAIN lastStep.products
        /\ ~HasDiscount(Loaded) /\ lastStep.err # ErrRead) =>
       lastStep.outcome = "empty"
  /\ \A id \in DOMAIN products :
       LET dto == GetProduct(products, id, now).dto
       IN /\ \A req \in C27_SameAsStored(products[id]) :
               UpdateProductExecute(req, dto, now, nextId) = Outcome(ErrNone, NewPlan)
          /\ ~HasDiscount(products[id]) =>
               RemoveDiscountExecute(dto, now, nextId) = Outcome(ErrNone, NewPlan)

C27_Witness ==
  /\ lastStep.outcome = "empty"
  /\ lastStep.op = "update_product"
  /\ lastStep.pid \in DOMAIN products
  /\ products[lastStep.pid][m_product.ColName] = <<"b">>
  /\ products[lastStep.pid][m_product.ColUpdatedAt] < now
  /\ Len(outbox) = 2

(***************************************************************************)
(* The contracts of the single business methods (SpecAgg).                 *)
(***************************************************************************)
LastEvent == agg.events[Len(agg.events)]

SamePrice(a, b) == a.num * b.den = b.num * a.den

\* C30: UpdatePrice fails with the archived error on an archived product and
\* with the negative-price / zero-price error for a price that is negative /
\* zero, and then changes nothing; with a valid price equal to the current
\* one it succeeds and changes nothing (no event, nothing dirty); otherwise
\* it replaces the price, marks the base-price field dirty, sets updatedAt
\* and appends one price-changed event carrying the old and the new price.
C30_Expected ==
  IF prev.status = domain.ProductStatusArchived THEN domain.ErrProductArchived
  ELSE IF last.args.newPrice.num < 0 THEN domain.ErrNegativePrice
  ELSE IF last.args.newPrice.num = 0 THEN domain.ErrZeroPrice
  ELSE ErrNone

C30_UpdatePriceContract ==
  (AfterCall /\ last.op = "UpdatePrice") =>
    /\ last.err = C30_Expected
    /\ Failed => agg = prev
    /\ (~Failed /\ SamePrice(last.args.newPrice, prev.basePrice)) => agg = prev
    /\ (~Failed /\ ~SamePrice(last.args.newPrice, prev.basePrice)) =>
         /\ agg.basePrice = last.args.newPrice
         /\ agg.changes = prev.changes \cup {domain.FieldBasePrice}
         /\ agg.updatedAt = last.args.t
         /\ Appended = 1
         /\ SubSeq(agg.events, 1, Len(prev.events)) = prev.events
         /\ LastEvent.type = "price.changed"
         /\ LastEvent.oldPrice = prev.basePrice
         /\ LastEvent.newPrice = last.args.newPrice
         /\ \A f \in DataFields \ {"basePrice"} : agg[f] = prev[f]

C30_Witness ==
  /\ AfterCall
  /\ last.op = "UpdatePrice"
  /\ ~Failed
  /\ Appended = 1
  /\ LastEvent.type = "price.changed"
  /\ ~SamePrice(LastEvent.oldPrice, LastEvent.newPrice)
  /\ agg.basePrice = LastEvent.newPrice

\* C23: Activate fails with the archived error on an archived product and
\* with the already-active error on an active one, and then status,
\* updatedAt, the dirty fields and the events are as before the call; from
\* draft or inactive it sets the status to active, marks the status field and
\* no other dirty, sets updatedAt to now and appends one activation event.
C23_ActivateContract ==
  (AfterCall /\ last.op = "Activate") =>
    /\ prev.status = domain.ProductStatusArchived => last.err = domain.ErrProductArchived
    /\ prev.status = domain.ProductStatusActive => last.err = domain.ErrProductAlreadyActive
    /\ prev.status \in {domain.ProductStatusDraft, domain.ProductStatusInactive} => ~Failed
    /\ Failed =>
         /\ agg.status = prev.status
         /\ agg.updatedAt = prev.updatedAt
         /\ agg.changes = prev.changes
         /\ agg.events = prev.events
    /\ ~Failed =>
         /\ agg.status = domain.ProductStatusActive
         /\ agg.changes = prev.changes \cup {domain.FieldStatus}
         /\ agg.updatedAt = last.args.t
         /\ Appended = 1
         /\ SubSeq(agg.events, 1, Len(prev.events)) = prev.events
         /\ LastEvent.type = "product.activated"
         /\ \A f \in DataFields \ {"status"} : agg[f] = prev[f]

C23_Witness ==
  /\ AfterCall
  /\ last.op = "Activate"
  /\ ~Failed
  /\ prev.status = domain.ProductStatusInactive
  /\ agg.status = domain.ProductStatusActive
  /\ agg.updatedAt # prev.updatedAt

\* C24: Deactivate fails exactly when the product is archived (archived
\* error) or inactive (already-inactive error); from draft and from active it
\* sets the status to inactive, marks the status field dirty, sets updatedAt
\* to now and appends one deactivation event.  Failing or not, it leaves the
\* attached discount as it was.
C24_DeactivateContract ==
  (AfterCall /\ last.op = "Deactivate") =>
    /\ Failed <=> prev.status \in {domain.ProductStatusArchived, domain.ProductStatusInactive}
    /\ prev.status = domain.ProductStatusArchived => last.err = domain.ErrProductArchived
    /\ prev.status = domain.ProductStatusInactive => last.err = domain.ErrProductAlreadyInactive
    /\ agg.discount = prev.discount
    /\ ~Failed =>
         /\ agg.status = domain.ProductStatusInactive
         /\ domain.FieldStatus \in agg.changes
         /\ agg.updatedAt = last.args.t
         /\ Appended = 1
         /\ LastEvent.type = "product.deactivated"

C24_Witness ==
  /\ AfterCall
  /\ last.op = "Deactivate"
  /\ ~Failed
  /\ prev.status = domain.ProductStatusActive
  /\ prev.discount # NilDiscount
  /\ agg.discount = prev.discount
  /\ agg.status = domain.ProductStatusInactive

\* C25: Archive fails with the cannot-archive-active error on an active
\* product and with the archived error on an archived one; from draft or
\* inactive it sets the status to archived and archivedAt to now, marks the
\* status and the archivedAt field (and no other) dirty and appends one
\* archival event.  The only call that takes a product out of the active
\* status is a successful Deactivate, so an active product is archived only
\* after one.
C25_ArchiveContract ==
  /\ (AfterCall /\ last.op = "Archive") =>
       /\ prev.status = domain.ProductStatusActive =>
            last.err = domain.ErrCannotArchiveActiveProduct
       /\ prev.status = domain.ProductStatusArchived => last.err = domain.ErrProductArchived
       /\ prev.status \in {domain.ProductStatusDraft, domain.ProductStatusInactive} => ~Failed
       /\ Failed => agg = prev
       /\ ~Failed =>
            /\ agg.status = domain.ProductStatusArchived
            /\ agg.archivedAt = last.args.t
            /\ agg.changes = prev.changes \cup {domain.FieldStatus, domain.FieldArchivedAt}
            /\ Appended = 1
            /\ LastEvent.type = "product.archived"
  /\ (AfterCall /\ prev.status = domain.ProductStatusActive
        /\ agg.status # domain.ProductStatusActive) =>
       /\ last.op = "Deactivate"
       /\ ~Failed
       /\ agg.status = domain.ProductStatusInactive

C25_Witness ==
  /\ AfterCall
  /\ last.op = "Archive"
  /\ ~Failed
  /\ prev.status = domain.ProductStatusInactive
  /\ \E i \in 1..Len(prev.events) : prev.events[i].type = "product.deactivated"
  /\ \E i \in 1..Len(prev.events) : prev.events[i].type = "product.activated"
  /\ agg.changes = {domain.FieldStatus, domain.FieldArchivedAt}

\* C22: in every state of an aggregate that a successful NewProduct made,
\* after any calls of the business methods, failing ones included, the name
\* is non-empty and at most 255 long, the category is non-empty and at most
\* 100 long, and the base price is strictly positive.
C22_DetailsAndPriceValid ==
  agg # NoAgg =>
    /\ agg.name # <<>>
    /\ Len(agg.name) <= MaxNameLen
    /\ agg.category # <<>>
    /\ Len(agg.category) <= MaxCategoryLen
    /\ agg.basePrice # NilMoney
    /\ agg.basePrice.num > 0
    /\ agg.basePrice.den > 0

C22_Witness ==
  /\ AfterCall
  /\ last.op = "UpdateDetails"
  /\ last.err = domain.ErrEmptyProductCategory
  /\ Len(last.args.name) > Len(agg.name)
  /\ agg.name # prev.name
  /\ agg.category = prev.category

\* C29: a call of a business method that succeeds and changes a field, the
\* dirty set or the pending events leaves updatedAt equal to the time the
\* caller passed; a call that fails, and a call that succeeds without
\* changing anything, leaves updatedAt as it was; no call changes createdAt
\* or the identifier.
Effect == DataChanged \/ agg.changes # prev.changes \/ agg.events # prev.events

C29_UpdatedAtFollowsEffect ==
  AfterCall =>
    /\ agg.id = prev.id
    /\ agg.createdAt = prev.createdAt
    /\ (~Failed /\ Effect) => agg.updatedAt = last.args.t
    /\ (Failed \/ ~Effect) => agg.updatedAt = prev.updatedAt

C29_Witness ==
  /\ AfterCall
  /\ last.op = "UpdatePrice"
  /\ ~Failed
  /\ ~Effect
  /\ last.args.t # agg.updatedAt
  /\ agg.createdAt = prev.createdAt

\* C26: a successful UpdateDetails changes exactly those of name, description
\* and category whose argument is not the empty string and, trimmed, differs
\* from the current value, and sets them to the trimmed argument; a field
\* whose argument is the empty string stays as it was.  When a field changed,
\* one product.updated event is appended whose change map holds exactly the
\* changed fields with their new values; when none changed, the aggregate is
\* left as it was.  Repeating the successful call with the same arguments, at
\* any time, succeeds and changes nothing: no event, nothing marked dirty,
\* updatedAt as it was.
DetailFields == {"name", "description", "category"}

DetailDirty(f) ==
  IF f = "name" THEN domain.FieldName
  ELSE IF f = "description" THEN domain.FieldDescription
  ELSE domain.FieldCategory

DetailsToChange ==
  {f \in DetailFields : last.args[f] # <<>> /\ TrimSpace(last.args[f]) # prev[f]}

C26_UpdateDetailsContract ==
  (AfterCall /\ last.op = "UpdateDetails" /\ ~Failed) =>
    /\ \A f \in DetailFields :
         agg[f] = IF f \in DetailsToChange THEN TrimSpace(last.args[f]) ELSE prev[f]
    /\ \A f \in DetailFields : last.args[f] = <<>> => agg[f] = prev[f]
    /\ \A f \in DataFields \ DetailFields : agg[f] = prev[f]
    /\ agg.changes = prev.changes \cup {DetailDirty(f) : f \in DetailsToChange}
    /\ DetailsToChange = {} => agg = prev
    /\ DetailsToChange # {} =>
         /\ Appended = 1
         /\ SubSeq(agg.events, 1, Len(prev.events)) = prev.events
         /\ LastEvent.type = "product.updated"
         /\ LastEvent.changes = {<<f, agg[f]>> : f \in DetailsToChange}
         /\ agg.updatedAt = last.args.t
    /\ \A t \in Times :
         UpdateDetails(agg, last.args.name, last.args.description, last.args.category, t)
           = [err |-> ErrNone, p |-> agg]

C26_Witness ==
  /\ AfterCall
  /\ last.op = "UpdateDetails"
  /\ ~Failed
  /\ DetailsToChange = {"name"}
  /\ last.args.category # <<>>
  /\ last.args.name # agg.name
  /\ agg.name # prev.name
  /\ agg.category = prev.category
  /\ LastEvent.changes = {<<"name", agg.name>>}

\* C28: CalculateEffectivePrice(now) returns base - base * percentage when a
\* discount is attached and start <= now < end, and the base price in every
\* other case (no discount, now before start, now at or after end); the
\* pricing calculator returns the same for the same price and discount.  The
\* call leaves the aggregate as it was: fields, dirty set, events, updatedAt.
C28_Discounted ==
  LET price == last.args.price
      pct   == last.args.discount.percentage
  IN NewRat(price.num * (pct.den - pct.num), price.den * pct.den)

C28_EffectivePrice ==
  CalcOf("EffectivePrice") =>
    LET d == last.args.discount
        t == last.args.t
        applies == d # NilDiscount /\ d.startDate <= t /\ t < d.endDate
    IN /\ applies => last.res.aggregate = C28_Discounted
       /\ ~applies => last.res.aggregate = last.args.price
       /\ (last.res.aggregate # last.args.price) => applies
       /\ last.res.calculator = last.res.aggregate
       /\ agg = prev
       /\ agg.basePrice = last.args.price
       /\ agg.discount = d
       /\ agg.changes = {}
       /\ agg.events = <<>>

C28_Witness ==
  /\ CalcOf("EffectivePrice")
  /\ last.args.discount # NilDiscount
  /\ last.args.discount.percentage.num > 0
  /\ last.args.t = last.args.discount.endDate
  /\ last.res.aggregate = last.args.price
  /\ agg.discount = last.args.discount

(***************************************************************************)
(* The plan, the constructors and the transport (Spec, SpecCalc).          *)
(***************************************************************************)
\* C39: a plan is an append-only ordered list.  Adding nil leaves it as it
\* is; adding a mutation puts it at the end and leaves the earlier entries
\* in place; the plan is empty exactly when no mutation was added; and the
\* plan a command built holds its mutations in the order they were added,
\* the product row's mutation first and the outbox inserts after it.
C39_PlanIsOrderedList ==
  LET plan == lastStep.plan
  IN /\ PlanIsEmpty(NewPlan)
     /\ PlanAdd(plan, NilMutation) = plan
     /\ PlanIsEmpty(plan) <=> plan = NewPlan
     /\ \A i \in DOMAIN plan :
          LET added == PlanAdd(plan, plan[i])
          IN /\ Len(added) = Len(plan) + 1
             /\ SubSeq(added, 1, Len(plan)) = plan
             /\ added[Len(added)] = plan[i]
             /\ ~PlanIsEmpty(added)
     /\ ~PlanIsEmpty(plan) =>
          /\ plan = PlanAdd(SubSeq(plan, 1, Len(plan) - 1), plan[Len(plan)])
          /\ plan[1].table = m_product.TableName
          /\ \A i \in 2..Len(plan) : plan[i].table = m_outbox.TableName
     /\ \A w \in DOMAIN reqs : reqs[w] # Idle => reqs[w].plan = plan

C39_Witness ==
  /\ lastStep.outcome = "planned"
  /\ lastStep.op = "apply_discount"
  /\ Len(lastStep.plan) = 2
  /\ lastStep.plan[1].kind = "update"
  /\ lastStep.plan[1].table = m_product.TableName
  /\ lastStep.plan[2].kind = "insert"
  /\ lastStep.plan[2].table = m_outbox.TableName
  /\ PlanAdd(lastStep.plan, NilMutation) = lastStep.plan

\* C32: NewMoney(numerator, 0) hands its caller an error, not a Money and
\* not a panic; a create request whose base-price denominator is 0 returns
\* an error and leaves the tables as they were.
C32_ZeroDenominatorIsAnError ==
  /\ \A req \in CreateReqs :
       req.BasePriceDen = 0 => ~NewMoney(req.BasePriceNum, req.BasePriceDen).panic
  /\ (BeginStep /\ lastStep.op = "create_product") =>
       /\ lastStep.err # PanicZeroDenominator
       /\ lastStep.err # ErrNone => TablesUnchanged

\* C33: NewDiscount fails with the invalid-percentage error when the
\* percentage is below 0 or above 100, whatever the period; otherwise with
\* the invalid-period error when end <= start, end = start included;
\* otherwise it succeeds with the start and the end it was given and a
\* percentage between 0 and 1.  NewDiscountFromRat decides the same way.  A
\* discount is never changed by the calls made on it: after any of them the
\* discount in hand is still one the constructor built.
C33_Expected ==
  LET raw == last.args.raw
  IN IF raw.pct < 0 \/ raw.pct > 100 * MilliPerPercent THEN domain.ErrInvalidDiscountPercentage
     ELSE IF raw.end <= raw.start THEN domain.ErrInvalidDiscountPeriod
     ELSE ErrNone

C33_NewDiscountContract ==
  /\ last.args.discount \in CalcDiscounts \cup {NilDiscount}
  /\ CalcOf("NewDiscount") =>
       LET raw == last.args.raw
           out == last.res.out
           rat == last.res.fromRat
       IN /\ out.err = C33_Expected
          /\ rat.err = C33_Expected
          /\ out.err # ErrNone => (out.d = NilDiscount /\ rat.d = NilDiscount)
          /\ out.err = ErrNone =>
               /\ out.d.startDate = raw.start
               /\ out.d.endDate = raw.end
               /\ out.d.startDate < out.d.endDate
               /\ 0 <= out.d.percentage.num
               /\ out.d.percentage.num <= out.d.percentage.den
               /\ out.d.percentage.num * 100 * MilliPerPercent = raw.pct * out.d.percentage.den
               /\ rat.d = out.d

C33_Witness ==
  /\ CalcOf("NewDiscount")
  /\ last.args.raw.pct > 100 * MilliPerPercent
  /\ last.args.raw.end = last.args.raw.start
  /\ last.res.out.err = domain.ErrInvalidDiscountPercentage
  /\ last.res.fromRat.err = domain.ErrInvalidDiscountPercentage

\* The aggregate a repository rebuilds from the fields the aggregate holds,
\* and what each business method returns when called on it once.
C37_Reconstructed ==
  ReconstructProduct(agg.id, agg.name, agg.description, agg.category, agg.basePrice,
                     agg.discount, agg.status, agg.createdAt, agg.updatedAt, agg.archivedAt)

C37_OneCall ==
  LET p == C37_Reconstructed
  IN {Activate(p, now), Deactivate(p, now), Archive(p, now), RemoveDiscount(p, now)}
     \cup {UpdatePrice(p, newPrice, now) : newPrice \in InPrices}
     \cup {ApplyDiscount(p, discount, now) : discount \in InDiscounts}
     \cup {UpdateDetails(p, name, <<>>, <<>>, now) : name \in InNames}
     \cup {UpdateDetails(p, <<>>, description, category, now) :
             description \in InDescs, category \in InCategories}

\* C37: a reconstructed aggregate has no dirty field and no pending event,
\* and a successful call either appends an event and leaves some field
\* dirty, or appends none and leaves the dirty set as it was; so after
\* successful calls only, the dirty set is non-empty exactly when an event
\* is pending.  The repository returns a product update for such an
\* aggregate exactly when an event is pending, for which the plan gets an
\* outbox insert.
C37_DirtyIffPending ==
  agg # NoAgg =>
    /\ ~HasChanges(C37_Reconstructed)
    /\ C37_Reconstructed.events = <<>>
    /\ (AfterCall /\ ~Failed) =>
         /\ Appended = 1 => HasChanges(agg)
         /\ Appended = 0 => agg.changes = prev.changes
    /\ \A res \in C37_OneCall :
         res.err = ErrNone =>
           /\ HasChanges(res.p) <=> res.p.events # <<>>
           /\ UpdateMut(res.p) # NilMutation <=> res.p.events # <<>>

C37_Witness ==
  /\ AfterCall
  /\ last.op = "Activate"
  /\ ~Failed
  /\ Appended = 1
  /\ HasChanges(prev)
  /\ agg.changes = prev.changes
  /\ \E res \in C37_OneCall : res.err = ErrNone /\ HasChanges(res.p)
  /\ \E res \in C37_OneCall : res.err = ErrNone /\ ~HasChanges(res.p)

\* The columns no activate, deactivate or update command has a dirty field
\* for.
C36_Kept ==
  DiscountColumns \cup {m_product.ColBasePriceNumerator, m_product.ColBasePriceDenominator,
                        m_product.ColCreatedAt, m_product.ColProductID}

\* The row of id after the store applied plan to the tables as they are.
C36_After(plan, id) ==
  BufferWrite([products |-> products, outbox |-> outbox, ok |-> TRUE], plan).products[id]

\* C36: a commit leaves every column its plan does not write as it was, and
\* every other row too.  The plans of activate, deactivate and update, built
\* from an aggregate reconstructed without the stored discount (activate and
\* deactivate also without the description), write none of the discount
\* columns, base price, created_at and product_id, and activate and
\* deactivate, as an update that supplies no description, do not write the
\* description: whatever the row holds there, it holds after the commit.
C36_CleanColumnsKept ==
  /\ (Committed /\ lastStep.pid \in DOMAIN lastStep.products) =>
       LET before  == lastStep.products[lastStep.pid]
           after   == products[lastStep.pid]
           written == DOMAIN lastStep.plan[1].values
       IN /\ \A c \in DOMAIN before : c \notin written => after[c] = before[c]
          /\ after[m_product.ColProductID] = before[m_product.ColProductID]
          /\ \A id \in DOMAIN lastStep.products \ {lastStep.pid} :
               products[id] = lastStep.products[id]
          /\ lastStep.op \in {"activate_product", "deactivate_product", "update_product"} =>
               \A c \in C36_Kept : after[c] = before[c]
          /\ lastStep.op \in {"activate_product", "deactivate_product"} =>
               after[m_product.ColDescription] = before[m_product.ColDescription]
  /\ \A id \in DOMAIN products :
       LET dto == GetProduct(products, id, now).dto
           row == products[id]
       IN /\ \A out \in {ActivateProductExecute(dto, now, nextId),
                         DeactivateProductExecute(dto, now, nextId)} :
               (out.err = ErrNone /\ ~PlanIsEmpty(out.plan)) =>
                 /\ \A c \in C36_Kept : C36_After(out.plan, id)[c] = row[c]
                 /\ C36_After(out.plan, id)[m_product.ColDescription] = row[m_product.ColDescription]
          /\ \A req \in UpdateReqs :
               LET out == UpdateProductExecute(req, dto, now, nextId)
               IN (out.err = ErrNone /\ ~PlanIsEmpty(out.plan)) =>
                    /\ \A c \in C36_Kept : C36_After(out.plan, id)[c] = row[c]
                    /\ ~req.Description.valid =>
                         C36_After(out.plan, id)[m_product.ColDescription]
                           = row[m_product.ColDescription]

C36_Witness ==
  /\ Committed
  /\ lastStep.op = "apply_discount"
  /\ HasDiscount(products[lastStep.pid])
  /\ products[lastStep.pid][m_product.ColDescription].valid
  /\ LET out == DeactivateProductExecute(GetProduct(products, lastStep.pid, now).dto, now, nextId)
     IN /\ out.err = ErrNone
        /\ HasDiscount(C36_After(out.plan, lastStep.pid))
        /\ C36_After(out.plan, lastStep.pid)[m_product.ColStatus] = domain.ProductStatusInactive

\* C38: the percentage the transport hands on grows with the value written
\* in the request: a text whose number is not above another's never gives
\* the larger percentage, so "1" gives no more than "2".
C38_ParsingIsMonotone ==
  (last.op = "mapApplyDiscountRequest" /\ last.err = ErrNone) =>
    \A other \in ParseTexts :
      LET b == mapApplyDiscountRequest(other, last.args.startDate, last.args.endDate)
      IN (/\ b.err = ErrNone
          /\ RatCmp(RatSetString(last.args.text).r, RatSetString(other).r) <= 0)
           => last.res.Percentage <= b.req.Percentage

CancelledStep == lastStep.outcome = "cancelled"

\* The event ids of the outbox inserts of a plan.
PlanEventIds(plan) ==
  {plan[i].values[m_outbox.ColEventID] : i \in {j \in DOMAIN plan : plan[j].table = m_outbox.TableName}}

\* C31 as stated: a request cancelled after its load writes nothing and
\* returns an error.
C31_CancelledReturnsError ==
  CancelledStep => (TablesUnchanged /\ lastStep.err # ErrNone)

\* The event ids of the plans in a transaction that has not ended.
InFlightEventIds == UNION {PlanEventIds(reqs[w].plan) : w \in {v \in DOMAIN reqs : reqs[v] # Idle}}

\* C31: a request cancelled after its load and before its commit took
\* effect writes nothing, then or later: the tables are as they were, the
\* plan is in no transaction any more, its event ids are drawn and stored
\* nowhere, and an event id that is drawn, not stored and in no transaction
\* is never stored by any later step.  The request returns the context's
\* error when its plan is not empty, and the domain method's error when
\* that failed; with an empty plan (a command that changes nothing) it
\* returns nil, as Apply does not look at the context then.
C31_CancelledPlanDiscarded ==
  /\ [](CancelledStep =>
          /\ TablesUnchanged
          /\ \A w \in DOMAIN reqs : reqs[w] = Idle \/ reqs[w].plan # lastStep.plan
          /\ \A id \in PlanEventIds(lastStep.plan) :
               id < nextId /\ id \notin OutboxKeys(outbox) /\ id \notin InFlightEventIds
          /\ ~PlanIsEmpty(lastStep.plan) => lastStep.err = ErrCanceled
          /\ PlanIsEmpty(lastStep.plan) => lastStep.err # ErrCanceled)
  /\ [][\A id \in 1..MaxIds :
          (id < nextId /\ id \notin OutboxKeys(outbox) /\ id \notin InFlightEventIds)
            => id \notin OutboxKeys(outbox')]_vars

\* A request with a plan is cancelled over a store that holds rows.
C31_Witness ==
  /\ CancelledStep
  /\ ~PlanIsEmpty(lastStep.plan)
  /\ lastStep.err = ErrCanceled
  /\ outbox # <<>>
  /\ PlanEventIds(lastStep.plan) # {}
  /\ PlanEventIds(lastStep.plan) \cap OutboxKeys(outbox) = {}

\* C34: whatever commands on one product run at once, and in whatever order
\* their transactions commit, every stored row has archived_at set exactly
\* when its status is archived.
C34_RowArchivedAtIffArchived ==
  \A id \in DOMAIN products :
    products[id][m_product.ColArchivedAt].valid
      <=> products[id][m_product.ColStatus] = domain.ProductStatusArchived

\* The event types of the stored outbox rows of one product, oldest first;
\* a commit appends its rows, so this is commit order.
C35_EventsOf(id) ==
  LET rows == SelectSeq(outbox, LAMBDA r : r[m_outbox.ColAggregateID] = id)
  IN [i \in DOMAIN rows |-> rows[i][m_outbox.ColEventType]]

\* Whether the business rule of each event holds in the state the events
\* before it leave: st is the status ("none" before the creation) and
\* whether a discount is present.
RECURSIVE C35_ValidRun(_, _)
C35_ValidRun(types, st) ==
  IF types = <<>> THEN TRUE
  ELSE LET e    == Head(types)
           live == st.status \notin {"none", domain.ProductStatusArchived}
           next ==
             CASE e = "product.created" ->
                    [ok |-> st.status = "none",
                     st |-> [status |-> domain.ProductStatusDraft, discount |-> FALSE]]
               [] e = "product.activated" ->
                    [ok |-> live /\ st.status # domain.ProductStatusActive,
                     st |-> [st EXCEPT !.status = domain.ProductStatusActive]]
               [] e = "product.deactivated" ->
                    [ok |-> live /\ st.status # domain.ProductStatusInactive,
                     st |-> [st EXCEPT !.status = domain.ProductStatusInactive]]
               [] e = "product.archived" ->
                    [ok |-> live /\ st.status # domain.ProductStatusActive,
                     st |-> [st EXCEPT !.status = domain.ProductStatusArchived]]
               [] e = "product.discount_applied" ->
                    [ok |-> st.status = domain.ProductStatusActive /\ ~st.discount,
                     st |-> [st EXCEPT !.discount = TRUE]]
               [] e = "product.discount_removed" ->
                    [ok |-> live /\ st.discount,
                     st |-> [st EXCEPT !.discount = FALSE]]
               [] OTHER -> [ok |-> live, st |-> st]
       IN next.ok /\ C35_ValidRun(Tail(types), next.st)

\* C35: the outbox events of each product, in commit order, are a run of the
\* aggregate's state machine: never a second product.activated with no
\* product.deactivated between, never a second product.discount_applied
\* with no product.discount_removed between, also when commands on the
\* product run at once.
C35_OutboxIsValidRun ==
  \A id \in DOMAIN products :
    C35_ValidRun(C35_EventsOf(id), [status |-> "none", discount |-> FALSE])

====
